---- MODULE Spec2Model ----
(***************************************************************************)
(* PocketFlow-JS: the node / flow execution engine (index.js) and the      *)
(* router node of the JSON compiler (compiler.js).                         *)
(*                                                                         *)
(* One flow run is modelled at the granularity of JavaScript's run-to-     *)
(* completion steps: every `await` of the engine is a point where another  *)
(* pending continuation may run.  The three lifecycle stages of a node are *)
(* kept as separate steps so that the stage a lifecycle is in is a visible *)
(* part of the state.  An exec hook is a promise-returning function (the   *)
(* documented `async exec`, and the compiler's `node.exec = async ...`):   *)
(* calling it and its settling are two steps, and it may fulfil or reject. *)
(* A hook that returns a plain value is the case in which the settling     *)
(* follows with nothing in between: `await` defers the continuation even   *)
(* then.                                                                   *)
(***************************************************************************)
EXTENDS Integers, Sequences, FiniteSets, TLC

(***************************************************************************)
(* Bounds of the model.                                                    *)
(***************************************************************************)
MaxItems == 2
MaxRetriesBound == 2
MaxHops == 3
MaxCases == 3
MaxScore == 10
MaxNodeSpecs == 2
MaxEdgeSpecs == 1
MaxRunHops == 8
MaxParamSets == 2

(***************************************************************************)
(* JavaScript values.                                                      *)
(***************************************************************************)
Undefined == "<undefined>"
Null == "<null>"
Empty == ""
None == "<none>"

\* index.js exports: the node classes a flow can traverse
NodeKinds == {"Node", "BatchNode", "AsyncNode", "AsyncBatchNode", "AsyncParallelBatchNode"}

\* `curr instanceof AsyncNode`
IsAsyncNode(k) == k \in {"AsyncNode", "AsyncBatchNode", "AsyncParallelBatchNode"}

\* the classes whose _exec maps over the items returned by prep
IsBatchKind(k) == k \in {"BatchNode", "AsyncBatchNode", "AsyncParallelBatchNode"}

\* the classes whose _exec launches every element at once (Promise.all over map)
LaunchesAll(k) == k \in {"BatchNode", "AsyncParallelBatchNode"}

NodeIds == {"n1", "n2"}

\* the labels under which next() registers successors in the model
RegLabels == {"default", "a"}

\* `this.successors = {}` is a plain object: a lookup of a name that
\* Object.prototype defines finds the inherited member
ProtoKeys == {"constructor"}
ProtoMember == "<Object.prototype member>"

\* what a post hook can return: nothing, or a string
PostLabels == {Undefined, Null, Empty, "default", "a", "b", "constructor"}

\* values flowing out of exec / execFallback
Val(tag, item, n) == [tag |-> tag, item |-> item, n |-> n]
UndefinedVal == Val("undefined", "-", 0)
ExecValue(item, attempt) == Val("ok", item, attempt)
ExecError(item, attempt) == Val("error", item, attempt)
FallbackValue(item) == Val("fallback", item, 0)
NoError == Val("none", "-", 0)
UseRunAsyncError == Val("Use runAsync.", "-", 0)
TypeErrorNotAFunction == Val("TypeError: curr.setParams is not a function", "-", 0)

AllItems == <<"a", "b", "c", "d">>
ItemsOfLen(n) == SubSeq(AllItems, 1, n)

VARIABLES
    successors,   \* BaseNode.successors of every registered node
    kind,         \* class of every registered node
    maxRetries,   \* Node.maxRetries
    wait,         \* Node.wait
    asyncOrch,    \* TRUE: AsyncFlow.runAsync (_orchAsync); FALSE: Flow.run (_orch)
    pc,           \* the flow run: "init", "running", "done", "failed"
    curr,         \* _orch: the clone being run
    hop,          \* number of clones made by this run
    lastAction,   \* _orch: lastAction
    prevNode,     \* the node whose post produced lastAction
    flowResult,   \* value the run resolved to
    flowError,    \* error the run rejected with
    stage,        \* lifecycle stage of curr
    curRetry,     \* curr.curRetry
    tasks,        \* one record per element _exec call of curr's lifecycle
    execErr,      \* rejection of curr._exec(p) (first rejection wins in Promise.all)
    postArg,      \* execRes handed to post
    prepRes,      \* what prep returned in curr's lifecycle
    postPrep,     \* prepRes handed to post
    prepCalls,    \* prep invocations of curr's lifecycle
    postCalls,    \* post invocations of curr's lifecycle
    inProgress,   \* lifecycles of this run begun and not yet finished
    shared,       \* keys of the shared context written so far
    cases,        \* router: nodeConfig.exec.cases
    score,        \* router: ctx.score
    routed,       \* router: what node.post returned
    description,  \* compiler: the graph description (config)
    caller,       \* "compile": compile() then flow.run(); "agent": createAndRunAgent()
    reply,        \* MetaAgentCreator: what llm.call produced
    created,      \* what createAgentFromDescription returned
    compiled,     \* what compile returned or threw
    agent,        \* createAndRunAgent: "init", "running", "returned", "threw"
    ctx,          \* the shared context of the compiled flow's run
    visits,       \* lifecycles run per declared node id
    heap,         \* two runs: the node objects (registered nodes and clones)
    runs,         \* two runs: the state of each _orch call
    actor,        \* two runs: the run that took the last step
    nest,         \* nested flows: the top flow, its graph and its parameter sets
    orch,         \* nested flows: the _orch calls the top flow makes
    top,          \* nested flows: the top flow's run
    tmpl,         \* interpolate: the expressions of the template's placeholders
    output,       \* interpolate: what replace has put in place of each placeholder
    ipc,          \* interpolate: "idle", "replacing", "returned", "threw"
    mq,           \* message queue: the messages put and not yet got
    counter,      \* sendSystemMessages: counter
    senderPc,     \* sendSystemMessages: "put" or "sleep"
    agentSucc,    \* agent.successors
    postRet,      \* the label the agent's postAsync returns
    agentStage,   \* the agent node's lifecycle: "prep", "exec", "post", "ended"
    received,     \* the messages the agent has received
    qflow         \* flow.runAsync(shared): "running", "done"

engineVars == <<successors, kind, maxRetries, wait, asyncOrch, pc, curr, hop,
                lastAction, prevNode, flowResult, flowError, stage, curRetry,
                tasks, execErr, postArg, prepRes,
                postPrep, prepCalls, postCalls, inProgress, shared>>
routerVars == <<cases, score, routed>>
compilerVars == <<description, caller, reply, created, compiled, agent, ctx, visits>>
runVars == <<heap, runs, actor>>
nestVars == <<nest, orch, top>>
textVars == <<tmpl, output, ipc>>
queueVars == <<mq, counter, senderPc, agentSucc, postRet, agentStage, received, qflow>>
docVars == <<textVars, queueVars>>
vars == <<engineVars, routerVars, compilerVars, runVars, nestVars, docVars>>

(***************************************************************************)
(* Node._exec / AsyncNode._exec: the retry loop of one element.            *)
(***************************************************************************)
\* a task: pc is "pending" (not launched), "awaitExec", "awaitWait",
\* "resolved" or "rejected"
NewTask(item) ==
    [item |-> item, pc |-> "pending", execCalls |-> 0, fallbackCalls |-> 0,
     okAttempt |-> 0, result |-> UndefinedVal, error |-> NoError]

\* `for (this.curRetry = 0; this.curRetry < this.maxRetries; ...)`: loop test
LoopContinues(cr, mr) == cr < mr

\* mutant: the last attempt recognised one iteration late
IsLastAttemptOffByOne(cr, mr) == cr = mr

\* `if (this.curRetry === this.maxRetries - 1)`
IsLastAttempt(cr, mr) == cr = mr - 1

\* the loop test followed by `await this.exec(prepRes)`: exec is called when
\* the test holds, otherwise the function returns undefined
EnterAttempt(t, cr, mr) ==
    IF LoopContinues(cr, mr)
    THEN [t EXCEPT !.pc = "awaitExec", !.execCalls = @ + 1]
    ELSE [t EXCEPT !.pc = "resolved", !.result = UndefinedVal]

\* `this.curRetry = 0` and the first attempt
Launch(t, mr) == EnterAttempt(t, 0, mr)

\* `return await this.exec(prepRes)` when exec fulfils
ExecFulfilled(t) ==
    [t EXCEPT !.pc = "resolved", !.okAttempt = t.execCalls,
              !.result = ExecValue(t.item, t.execCalls)]

\* mutant: `await this.execFallback(prepRes, e)` without `return`: the
\* fallback's value is dropped and the loop runs out
FallbackCalledNoReturn(t, rethrows) ==
    IF rethrows
    THEN [t EXCEPT !.pc = "rejected", !.fallbackCalls = @ + 1,
                   !.error = ExecError(t.item, t.execCalls)]
    ELSE [t EXCEPT !.pc = "resolved", !.fallbackCalls = @ + 1,
                   !.result = UndefinedVal]

\* `return await this.execFallback(prepRes, e)`: the default hook rethrows e,
\* an overriding hook returns a value
FallbackCalled(t, rethrows) ==
    IF rethrows
    THEN [t EXCEPT !.pc = "rejected", !.fallbackCalls = @ + 1,
                   !.error = ExecError(t.item, t.execCalls)]
    ELSE [t EXCEPT !.pc = "resolved", !.fallbackCalls = @ + 1,
                   !.result = FallbackValue(t.item)]

(***************************************************************************)
(* _exec of the node as a whole.                                           *)
(***************************************************************************)
\* the sequential callers (a single node, AsyncBatchNode's for loop) call
\* `super._exec(item)` for element i once the elements before it resolved;
\* with no attempt to make the call resolves at once and the loop moves on
RECURSIVE LaunchFrom(_, _, _)
LaunchFrom(ts, i, mr) ==
    IF i > Len(ts) \/ ts[i].pc # "pending" THEN ts
    ELSE LET launched == [ts EXCEPT ![i] = Launch(@, mr)] IN
         IF launched[i].pc = "resolved" THEN LaunchFrom(launched, i + 1, mr)
                                        ELSE launched

\* tasks created by curr._exec(p): BatchNode and AsyncParallelBatchNode map
\* over all items at once (`items.map(item => super._exec(item))`), the others
\* start with the first
\* what prep hands to _exec: a batch node's prep returns the collection, any
\* other node's prep one value
PrepResult(k, items) == IF IsBatchKind(k) THEN items ELSE items[1]

\* mutant: exec of a plain node is called without the prepare result
ExecInputsDropped(k, p) == IF IsBatchKind(k) THEN p ELSE <<Undefined>>

\* the arguments of the exec calls of one lifecycle: Node._exec(p) calls
\* exec(p); the batch classes call super._exec(i) for every i of p
ExecInputs(k, p) == IF IsBatchKind(k) THEN p ELSE <<p>>

StartTasks(k, items, mr) ==
    IF LaunchesAll(k)
    THEN [i \in 1..Len(items) |-> Launch(NewTask(items[i]), mr)]
    ELSE LaunchFrom([i \in 1..Len(items) |-> NewTask(items[i])], 1, mr)

\* mutant: Promise.any in place of Promise.all
ExecResolvedAny(ts) == \E i \in 1..Len(ts) : ts[i].pc = "resolved"

\* Promise.all / the for loop has resolved: every element resolved
ExecResolved(ts) == \A i \in 1..Len(ts) : ts[i].pc = "resolved"

\* the resolved value: results in index order
Results(ts) == [i \in 1..Len(ts) |-> ts[i].result]

(***************************************************************************)
(* Flow.getNextNode                                                        *)
(***************************************************************************)
\* `action || "default"`
ActionKey(action) == IF action \in {Undefined, Null, Empty} THEN "default" ELSE action

\* `curr.successors[key]`: own entries first, then Object.prototype
Lookup(succ, key) ==
    IF key \in DOMAIN succ THEN succ[key]
    ELSE IF key \in ProtoKeys THEN ProtoMember
    ELSE None

\* mutant: a label that is not found falls back to "default"
GetNextNodeOrDefault(succ, action) ==
    IF Lookup(succ, ActionKey(action)) = None THEN Lookup(succ, "default")
    ELSE Lookup(succ, ActionKey(action))

\* getNextNode(curr, action): `curr.successors[action || "default"]`
GetNextNode(succ, action) == Lookup(succ, ActionKey(action))

\* mutant: `curr._run(shared)` without `await`
RunReturnedNoAwait(st) == st \in {"Executing", "Done"}

\* `await curr._run(shared)` has returned
RunReturned(st) == st = "Done"

(***************************************************************************)
(* compiler.js: router node                                                *)
(***************************************************************************)
CaseLabels == <<"approve", "review", "reject", "escalate", "archive">>

\* a case's `when`: absent, or a JavaScript condition over ctx.score
LowMark == 5
HighMark == 8
Whens ==
    {[op |-> "absent", a |-> 0, b |-> 0], [op |-> "true", a |-> 0, b |-> 0],
     [op |-> "false", a |-> 0, b |-> 0], [op |-> "throws", a |-> 0, b |-> 0],
     [op |-> "ge", a |-> LowMark, b |-> 0], [op |-> "ge", a |-> HighMark, b |-> 0],
     [op |-> "lt", a |-> LowMark, b |-> 0], [op |-> "lt", a |-> HighMark, b |-> 0],
     [op |-> "range", a |-> LowMark, b |-> HighMark]}

\* mutant: the catch block returns true
EvaluateConditionCatchTrue(w, s) ==
    CASE w.op = "true" -> TRUE
      [] w.op = "false" -> FALSE
      [] w.op = "ge" -> s >= w.a
      [] w.op = "lt" -> s < w.a
      [] w.op = "range" -> s >= w.a /\ s < w.b
      [] w.op = "throws" -> TRUE
      [] OTHER -> FALSE

\* evaluateCondition: new Function(...)(ctx, result), false when it throws
EvaluateCondition(w, s) ==
    CASE w.op = "true" -> TRUE
      [] w.op = "false" -> FALSE
      [] w.op = "ge" -> s >= w.a
      [] w.op = "lt" -> s < w.a
      [] w.op = "range" -> s >= w.a /\ s < w.b
      [] w.op = "throws" -> FALSE
      [] OTHER -> FALSE

\* `!case_.when || this.evaluateCondition(case_.when, context)`
CaseMatches(c, s) == c.when.op = "absent" \/ EvaluateCondition(c.when, s)

\* node.post of createRouterNode: the for loop over the cases
RECURSIVE RouterPostFrom(_, _, _)
RouterPostFrom(cs, s, i) ==
    IF i > Len(cs) THEN Null
    ELSE IF CaseMatches(cs[i], s) THEN cs[i].label
    ELSE RouterPostFrom(cs, s, i + 1)

\* mutant: the cases are scanned from the last to the first
RECURSIVE RouterPostBackFrom(_, _, _)
RouterPostBackFrom(cs, s, i) ==
    IF i < 1 THEN Null
    ELSE IF CaseMatches(cs[i], s) THEN cs[i].label
    ELSE RouterPostBackFrom(cs, s, i - 1)

RouterPostLastMatch(cs, s) == RouterPostBackFrom(cs, s, Len(cs))

RouterPost(cs, s) == RouterPostFrom(cs, s, 1)

(***************************************************************************)
(* compiler.js: values, templates and the shared context.                  *)
(* A JavaScript value is kept as the map from the property paths that lead *)
(* to its primitives to those primitives: a primitive is the map of the    *)
(* empty path, an object the map of the paths of its members.              *)
(***************************************************************************)
EmptyMap == [l \in {} |-> None]

Prim(s) == (<< >> :> s)

IsPrim(v) == DOMAIN v = {<< >>}

IsPrefix(p, q) == Len(p) <= Len(q) /\ SubSeq(q, 1, Len(p)) = p

\* obj[k1][k2]...: the member at path, undefined when a segment is missing
Member(v, path) ==
    LET under == {q \in DOMAIN v : IsPrefix(path, q)} IN
    IF under = {} THEN Prim(Undefined)
    ELSE [r \in {SubSeq(q, Len(path) + 1, Len(q)) : q \in under} |-> v[path \o r]]

\* String(v), as String.prototype.replace applies it to what its callback returns
StringOf(v) ==
    IF ~IsPrim(v) THEN "[object Object]"
    ELSE IF v[<< >>] = Undefined THEN "undefined"
    ELSE IF v[<< >>] = Null THEN "null"
    ELSE v[<< >>]

\* `result || {}`
OrEmptyObject(v) ==
    IF IsPrim(v) /\ v[<< >>] \in {Undefined, Null, Empty} THEN EmptyMap ELSE v

\* evaluateExpression's evalContext: { ctx: ctx || {}, result: result || {},
\* json, stringify, parse }
EvalContext(context) ==
    LET c == OrEmptyObject(context.ctx)
        r == OrEmptyObject(context.result)
        paths == {<<"ctx">> \o q : q \in DOMAIN c} \cup {<<"result">> \o q : q \in DOMAIN r}
                 \cup {<<"json">>, <<"stringify">>, <<"parse">>}
    IN  [q \in paths |->
            IF Len(q) = 1 THEN "<function>"
            ELSE IF q[1] = "ctx" THEN c[Tail(q)] ELSE r[Tail(q)]]

\* getNestedProperty(obj, path): path.split('.').reduce(...)
GetNestedProperty(obj, path) == Member(obj, path)

\* evaluateExpression for a dotted property path (`expr.includes('.')`) and
\* for a name of the evaluation context (`expr in evalContext`)
EvaluateExpression(expr, context) == GetNestedProperty(EvalContext(context), expr)

\* a template of one placeholder: `{{a.b.c}}` or `{{json(a.b.c)}}`; a
\* save without a `value` has no template
Template(expr) == [isString |-> TRUE, json |-> FALSE, expr |-> expr, assign |-> Undefined]
JsonTemplate(expr) == [isString |-> TRUE, json |-> TRUE, expr |-> expr, assign |-> Undefined]
NoTemplate == [isString |-> FALSE, json |-> FALSE, expr |-> << >>, assign |-> Undefined]

\* a placeholder without a dot that is no name of the evaluation context,
\* such as `{{ctx['key']=value}}`: evaluateExpression runs it as JavaScript
\* with ctx bound to the shared context
AssignTemplate(key, value) ==
    [isString |-> TRUE, json |-> FALSE, expr |-> <<key>>, assign |-> value]

\* JSON.stringify of a primitive string or of undefined
JsonStringify(v) ==
    IF IsPrim(v) /\ v[<< >>] = Undefined THEN Prim(Undefined)
    ELSE IF IsPrim(v) THEN Prim(v[<< >>]) ELSE Prim("{...}")

\* interpolate(template, context)
Interpolate(template, context) ==
    IF ~template.isString THEN Prim(Undefined)
    ELSE IF template.assign # Undefined THEN Prim(template.assign)
    ELSE IF template.json
         THEN Prim(StringOf(JsonStringify(EvaluateExpression(template.expr, context))))
         ELSE Prim(StringOf(EvaluateExpression(template.expr, context)))

\* setNestedProperty(obj, path, value): a primitive on the way is replaced by
\* an object, the member at path is replaced by value
SetNestedProperty(obj, path, value) ==
    LET kept == {q \in DOMAIN obj : ~IsPrefix(q, path) /\ ~IsPrefix(path, q)}
        added == {path \o r : r \in DOMAIN value}
    IN  [q \in kept \cup added |->
            IF q \in added THEN value[SubSeq(q, Len(path) + 1, Len(q))] ELSE obj[q]]

\* the shared context after interpolate(template, { ctx: shared, ... }): an
\* expression run by `new Function('ctx', 'result', ...)(ctx, result)` can
\* assign to ctx
InterpolateEffect(template, sh) ==
    IF template.isString /\ template.assign # Undefined
    THEN SetNestedProperty(sh, template.expr, Prim(template.assign))
    ELSE sh

\* `key in shared` for a top-level key
HasKey(obj, key) == \E q \in DOMAIN obj : IsPrefix(<<key>>, q)

(***************************************************************************)
(* compiler.js: graph descriptions, MetaAgentCreator's validation and      *)
(* PocketFlowCompiler.compile.                                             *)
(***************************************************************************)
Ok == "<ok>"

\* JavaScript truthiness of an optional string
Truthy(x) == x \notin {Undefined, Null, Empty}

\* `this.registry = { llm: ..., http: ..., ... }`
Registry == {"llm", "http", "router", "data", "batch", "async", "parallel"}

\* `this.registry[nodeConfig.kind]`: a lookup in a plain object
RegistryLookup(k) ==
    IF k \in Registry THEN "<factory>"
    ELSE IF k \in ProtoKeys THEN ProtoMember
    ELSE Undefined

\* the class each factory instantiates
NodeClass(k) ==
    CASE k \in {"llm", "http", "router", "data"} -> "Node"
      [] k = "batch" -> "BatchNode"
      [] k = "async" -> "AsyncNode"
      [] k = "parallel" -> "AsyncParallelBatchNode"

RequiredFields == {"version", "entry", "nodes", "edges"}

NoWhen == [op |-> "absent", a |-> 0, b |-> 0]

\* a node spec: id, kind, post.next, exec.cases, post.outputs.save, the exec
\* payload of a data node, loop_guard.max_iterations (0: not declared); it
\* declares no exec.prompt (exec.url for http) and no retry (0: not declared)
NodeSpec(id, k, next, cs, saves, payload, guard) ==
    [id |-> id, kind |-> k, next |-> next, cases |-> cs, saves |-> saves,
     exec |-> payload, loopGuard |-> guard, prompt |-> NoTemplate,
     retryMax |-> 0, retryWait |-> 0]

\* the node spec with exec.prompt, and with retry.max and retry.wait
WithPrompt(n, template) == [n EXCEPT !.prompt = template]
WithRetry(n, max, w) == [n EXCEPT !.retryMax = max, !.retryWait = w]

\* an edge spec; label is Undefined when the edge declares none
EdgeSpec(from, to, label) == [from |-> from, to |-> to, label |-> label]

\* `edge.label || 'default'`
EdgeLabel(e) == IF Truthy(e.label) THEN e.label ELSE "default"

DeclaredIds(d) == {d.nodes[i].id : i \in 1..Len(d.nodes)}

\* validateEdgeRouting: nodeActions.get(id), the entry set by the last node
\* spec that carries the id
NodeActions(d, id) ==
    LET last == CHOOSE i \in 1..Len(d.nodes) :
                    /\ d.nodes[i].id = id
                    /\ \A j \in 1..Len(d.nodes) : d.nodes[j].id = id => j <= i
        n == d.nodes[last]
    IN  {"default"}
        \cup (IF Truthy(n.next) THEN {n.next} ELSE {})
        \cup (IF n.kind = "router"
              THEN {n.cases[i].label : i \in {j \in 1..Len(n.cases) : Truthy(n.cases[j].label)}}
              ELSE {})

\* mutant: every label is taken to be one the source can produce
ValidateEdgeRoutingAnyLabel(d) == Ok

\* validateEdgeRouting(config): the error thrown, or Ok
ValidateEdgeRouting(d) ==
    IF \E i \in 1..Len(d.edges) :
          /\ d.edges[i].from \in DeclaredIds(d)
          /\ EdgeLabel(d.edges[i]) \notin NodeActions(d, d.edges[i].from)
    THEN "Invalid edge routing"
    ELSE Ok

\* validateConfig(config): the error thrown, or Ok
ValidateConfig(d) ==
    IF ~(RequiredFields \subseteq d.has)
    THEN "Invalid config: missing required fields (version, entry, nodes, edges)"
    ELSE IF Len(d.nodes) = 0 THEN "Config must have at least one node"
    ELSE IF d.entry \notin DeclaredIds(d) THEN "Entry node not found in nodes"
    ELSE IF \E i \in 1..Len(d.edges) :
               d.edges[i].from \notin DeclaredIds(d) \/ d.edges[i].to \notin DeclaredIds(d)
         THEN "Edge references missing node"
    ELSE ValidateEdgeRouting(d)

\* schema.json: the top-level `required` list and the enum of node kinds
SchemaRequired == RequiredFields
SchemaKinds == Registry

\* /^pf-js\/\d+\.\d+$/.test(config.version)
VersionFormatOk(v) == v \in {"pf-js/1.0", "pf-js/2.1"}

\* validateAgainstSchema(config): the error thrown, or Ok
ValidateAgainstSchema(d) ==
    IF ~(SchemaRequired \subseteq d.has) THEN "Missing required field"
    ELSE IF ~VersionFormatOk(d.version) THEN "Invalid version format"
    ELSE IF \E i \in 1..Len(d.nodes) :
               Truthy(d.nodes[i].kind) /\ d.nodes[i].kind \notin SchemaKinds
         THEN "Invalid node kind"
    ELSE Ok

\* `factory(nodeConfig)`: a registered factory builds a node of its class;
\* the inherited `constructor` is Object, and Object(nodeConfig) is nodeConfig
Factory(n) ==
    IF RegistryLookup(n.kind) = "<factory>"
    THEN [class |-> NodeClass(n.kind), spec |-> n]
    ELSE [class |-> "Object", spec |-> n]

\* compile: `for (const nodeConfig of config.nodes)`; made maps the ids to the
\* nodes instantiated so far
RECURSIVE CreateNodes(_, _, _)
CreateNodes(ns, i, made) ==
    IF i > Len(ns) THEN [error |-> Ok, nodes |-> made]
    ELSE IF ns[i].id \in DOMAIN made
         THEN [error |-> "Duplicate node ID", nodes |-> made]
    ELSE IF RegistryLookup(ns[i].kind) = Undefined
         THEN [error |-> "Unknown node kind", nodes |-> made]
    ELSE CreateNodes(ns, i + 1, made @@ (ns[i].id :> Factory(ns[i])))

\* BaseNode.next(node, action): `this.successors[action] = node`
NextLinkKeepFirst(succ, action, node) ==
    [l \in DOMAIN succ \cup {action} |-> IF l \in DOMAIN succ THEN succ[l] ELSE node]

NextLink(succ, action, node) ==
    [l \in DOMAIN succ \cup {action} |-> IF l = action THEN node ELSE succ[l]]

\* compile: `for (const edge of config.edges)`
RECURSIVE ConnectEdges(_, _, _, _)
ConnectEdges(es, i, nodes, succ) ==
    IF i > Len(es) THEN [error |-> Ok, successors |-> succ]
    ELSE IF es[i].from \notin DOMAIN nodes \/ es[i].to \notin DOMAIN nodes
         THEN [error |-> "Edge references missing node", successors |-> succ]
    ELSE IF nodes[es[i].from].class = "Object"
         THEN [error |-> "TypeError: fromNode.next is not a function", successors |-> succ]
    ELSE ConnectEdges(es, i + 1, nodes,
             [succ EXCEPT ![es[i].from] = NextLink(@, EdgeLabel(es[i]), es[i].to)])

\* compile: the flow class chosen from the node classes present
FlowClass(nodes) ==
    LET hasAsyncNodes == \E id \in DOMAIN nodes : IsAsyncNode(nodes[id].class)
        hasBatchNodes == \E id \in DOMAIN nodes :
                            nodes[id].class \in {"BatchNode", "AsyncBatchNode"}
    IN  IF hasAsyncNodes /\ hasBatchNodes THEN "AsyncBatchFlow"
        ELSE IF hasAsyncNodes THEN "AsyncFlow"
        ELSE "Flow"

Thrown(error, nodes) ==
    [threw |-> TRUE, error |-> error, nodes |-> nodes,
     successors |-> [id \in DOMAIN nodes |-> EmptyMap], flow |-> None,
     startNode |-> None]

\* compile(config): what it returns ({ flow, nodes, config }) or throws
Compile(d) ==
    IF ~(RequiredFields \subseteq d.has)
    THEN Thrown("Invalid config: missing required fields (version, entry, nodes, edges)",
                EmptyMap)
    ELSE LET cn == CreateNodes(d.nodes, 1, EmptyMap) IN
         IF cn.error # Ok THEN Thrown(cn.error, cn.nodes)
         ELSE LET ce == ConnectEdges(d.edges, 1, cn.nodes,
                                     [id \in DOMAIN cn.nodes |-> EmptyMap]) IN
              IF ce.error # Ok THEN Thrown(ce.error, cn.nodes)
              ELSE IF d.entry \notin DOMAIN cn.nodes
                   THEN Thrown("Entry node not found", cn.nodes)
              ELSE [threw |-> FALSE, error |-> Ok, nodes |-> cn.nodes,
                    successors |-> ce.successors, flow |-> FlowClass(cn.nodes),
                    startNode |-> d.entry]

\* compile was not called: `compiled: null`
NotCompiled ==
    [threw |-> FALSE, error |-> Ok, nodes |-> EmptyMap, successors |-> EmptyMap,
     flow |-> None, startNode |-> None]

\* createAgentFromDescription was not called
NotCreated == [threw |-> FALSE, success |-> FALSE, error |-> Ok, compiled |-> NotCompiled]

\* what llm.call({ prompt }) produced: a rejection, a value that is not a
\* string, a string without braces, a string whose braces do not hold JSON,
\* or JSON text (of the description)
Replies == {"rejects", "notString", "noBraces", "unparseable", "json"}

\* the catch block of createAgentFromDescription
Failure(e) == [threw |-> FALSE, success |-> FALSE, error |-> e, compiled |-> NotCompiled]

\* mutant: the steps run outside the try block
CreateAgentNoCatch(r, d) ==
    IF r = "json" /\ ValidateConfig(d) = Ok /\ ValidateAgainstSchema(d) = Ok
                  /\ ~Compile(d).threw
    THEN [threw |-> FALSE, success |-> TRUE, error |-> Ok, compiled |-> Compile(d)]
    ELSE [threw |-> TRUE, success |-> FALSE, error |-> "uncaught", compiled |-> NotCompiled]

\* createAgentFromDescription(description): the try block step by step, every
\* throw ending in the catch block
CreateAgentFromDescription(r, d) ==
    CASE r = "rejects" -> Failure("llm.call rejected")
      [] r = "notString" -> Failure("TypeError: response.match is not a function")
      [] r = "noBraces" -> Failure("No valid JSON found in LLM response")
      [] r = "unparseable" -> Failure("SyntaxError: JSON.parse")
      [] OTHER ->
           IF ValidateConfig(d) # Ok THEN Failure(ValidateConfig(d))
           ELSE IF ValidateAgainstSchema(d) # Ok THEN Failure(ValidateAgainstSchema(d))
           ELSE IF Compile(d).threw THEN Failure(Compile(d).error)
           ELSE [threw |-> FALSE, success |-> TRUE, error |-> Ok, compiled |-> Compile(d)]

(***************************************************************************)
(* compiler.js: the lifecycle of the compiled nodes.                       *)
(***************************************************************************)
\* what env.llm.call resolves to: { text, meta: { model } }
LlmResult == (<<"text">> :> "AI Response" @@ <<"meta", "model">> :> "gpt-4o-mini")

\* what fetch and response.json() resolve to: { status, data, headers }
HttpResult == (<<"status">> :> "200" @@ <<"data", "ok">> :> "true")

\* the `nodeConfig.retry?.max || 1` and `nodeConfig.retry?.wait || 0` the
\* factories pass to the constructor; router and data nodes are `new Node()`
RetryMax(n) ==
    IF n.kind \in {"router", "data"} \/ n.retryMax = 0 THEN 1 ELSE n.retryMax
RetryWait(n) == IF n.kind \in {"router", "data"} THEN 0 ELSE n.retryWait

\* the node's exec calls env.llm
NeedsLlm(n) == n.kind \in {"llm", "async"}

\* the errors exec throws or rejects with
MissingLlmError == "LLM environment not configured. Provide env.llm.call function."
CollaboratorError == "collaborator rejected"

\* Node._exec / AsyncNode._exec when every call of exec rejects: the loop from
\* the attempt made at this.curRetry = cr to the rethrowing default fallback
RECURSIVE ExecAllFail(_, _, _)
ExecAllFail(t, cr, mr) ==
    IF IsLastAttempt(cr, mr) THEN FallbackCalled(t, TRUE)
    ELSE LET nt == EnterAttempt(t, cr + 1, mr) IN
         IF nt.pc = "resolved" THEN nt ELSE ExecAllFail(nt, cr + 1, mr)

\* the calls of sleep Node._exec made for task t: `if (this.wait > 0) await
\* sleep(...)` after every failed attempt but the last
Sleeps(t, w) == IF w > 0 /\ t.execCalls > 0 THEN t.execCalls - 1 ELSE 0

\* the shared context after prep / prepAsync of a compiled node: the llm,
\* http and async nodes interpolate exec.prompt or exec.url
PrepShared(n, sh) ==
    IF n.kind \in {"llm", "http", "async"} THEN InterpolateEffect(n.prompt, sh) ELSE sh

\* execRes of a compiled node whose exec fulfils; the batch kinds map
\* `shared[path || 'items'] || []` to itself
ExecResult(n, sh) ==
    CASE n.kind = "data" -> n.exec
      [] n.kind = "router" -> (<<"shared">> :> "<shared>")
      [] n.kind \in {"llm", "async"} -> LlmResult
      [] n.kind = "http" -> HttpResult
      [] n.kind \in {"batch", "parallel"} -> OrEmptyObject(Member(sh, <<"items">>))
      [] OTHER -> EmptyMap

\* what _exec resolves to when exec is called and fulfils on the way: with a
\* maxRetries below 1 the retry loop is not entered and _exec resolves
\* undefined (a batch node: one undefined for each element)
ExecOutcome(n, sh) ==
    IF RetryMax(n) >= 1 THEN ExecResult(n, sh)
    ELSE IF n.kind \in {"batch", "parallel"}
         THEN LET items == OrEmptyObject(Member(sh, <<"items">>)) IN
              [q \in {<<p[1]>> : p \in DOMAIN items \ {<< >>}} |-> Undefined]
    ELSE Prim(Undefined)

\* `for (const save of nodeConfig.post.outputs.save)`: every value is
\* interpolated against { ctx: shared, result: execRes } and stored
RECURSIVE ApplySaves(_, _, _, _)
ApplySaves(saves, i, sh, execRes) ==
    IF i > Len(saves) THEN sh
    ELSE ApplySaves(saves, i + 1,
             SetNestedProperty(InterpolateEffect(saves[i].value, sh), saves[i].path,
                 Interpolate(saves[i].value, [ctx |-> sh, result |-> execRes])),
             execRes)

\* ctx.score as a number, when it is one
Numerals == ("2" :> 2 @@ "6" :> 6 @@ "9" :> 9)

\* the cases as they evaluate when ctx.score is not a number: a comparison
\* with undefined or NaN is false
WithoutScore(cs) ==
    [i \in 1..Len(cs) |->
        IF cs[i].when.op \in {"ge", "lt", "range"}
        THEN [cs[i] EXCEPT !.when = [op |-> "false", a |-> 0, b |-> 0]]
        ELSE cs[i]]

\* node.post of a compiled node: the shared context it leaves
PostShared(n, sh, execRes) ==
    IF n.kind \in {"router"} THEN sh
    ELSE IF n.kind = "data" THEN ApplySaves(n.saves, 1, sh, execRes)
    ELSE ApplySaves(n.saves, 1, SetNestedProperty(sh, <<"_lastResult">>, execRes), execRes)

\* node.post of a compiled node: the label it returns
PostLabel(n, sh) ==
    IF n.kind = "router"
    THEN LET v == Member(sh, <<"score">>) IN
         IF IsPrim(v) /\ v[<< >>] \in DOMAIN Numerals
         THEN RouterPost(n.cases, Numerals[v[<< >>]])
         ELSE RouterPost(WithoutScore(n.cases), 0)
    ELSE IF Truthy(n.next) THEN n.next ELSE Null

(***************************************************************************)
(* The flow run.                                                           *)
(***************************************************************************)

\* successor maps that next() can build over RegLabels
SuccMaps == UNION {[D -> NodeIds] : D \in SUBSET RegLabels}

\* `new Flow(start)`
startNode == "n1"

RouterIdle ==
    /\ cases = <<>>
    /\ score = 0
    /\ routed = None

\* nothing is compiled
CompilerIdle ==
    /\ description = [has |-> RequiredFields, version |-> "pf-js/1.0", entry |-> None,
                      nodes |-> << >>, edges |-> << >>]
    /\ caller = "compile"
    /\ reply = "json"
    /\ created = NotCreated
    /\ compiled = NotCompiled
    /\ agent = "init"
    /\ ctx = EmptyMap
    /\ visits = EmptyMap

\* no concurrent runs are made
RunsIdle ==
    /\ heap = EmptyMap
    /\ runs = EmptyMap
    /\ actor = 0

\* no template is interpolated and no message queue agent is run
DocIdle ==
    /\ tmpl = << >>
    /\ output = << >>
    /\ ipc = "idle"
    /\ mq = << >>
    /\ counter = 0
    /\ senderPc = "idle"
    /\ agentSucc = EmptyMap
    /\ postRet = Null
    /\ agentStage = "idle"
    /\ received = << >>
    /\ qflow = "idle"

\* no flow is used as a node and no batch flow is run
NestIdle ==
    /\ nest = EmptyMap
    /\ orch = << >>
    /\ top = EmptyMap

\* the state after the nodes are constructed and connected and before run():
\* two nodes of one class and one retry policy, n1 connected by next() under
\* any of the labels, n2 a leaf
Init ==
    /\ successors \in [NodeIds -> SuccMaps]
    /\ successors["n2"] = EmptyMap
    /\ kind \in [NodeIds -> NodeKinds]
    /\ kind["n2"] = kind["n1"]
    /\ maxRetries \in 0..MaxRetriesBound
    /\ wait \in {0, 1}
    /\ asyncOrch \in BOOLEAN
    /\ RunsIdle
    /\ NestIdle
    /\ DocIdle
    /\ pc = "init"
    /\ curr = None
    /\ hop = 0
    /\ lastAction = Null
    /\ prevNode = None
    /\ flowResult = None
    /\ flowError = NoError
    /\ stage = "Idle"
    /\ curRetry = 0
    /\ tasks = <<>>
    /\ execErr = NoError
    /\ postArg = <<>>
    /\ prepRes = None
    /\ postPrep = None
    /\ prepCalls = 0
    /\ postCalls = 0
    /\ inProgress = 0
    /\ shared = {}
    /\ RouterIdle
    /\ CompilerIdle

config == <<successors, kind, maxRetries, wait, asyncOrch>>

\* _orch / _orchAsync: `let curr = { ...this.startNode }` and lastAction = null
Run ==
    /\ pc = "init"
    /\ pc' = "running"
    /\ curr' = startNode
    /\ hop' = 1
    /\ stage' = "Idle"
    /\ curRetry' = 0
    /\ lastAction' = Null
    /\ UNCHANGED <<config, prevNode, flowResult, flowError, tasks, execErr,
                   postArg, prepRes, postPrep, prepCalls, postCalls, inProgress, shared, routerVars, compilerVars, runVars, nestVars, docVars>>

\* `curr.setParams(p); ... curr._run(shared)` up to the call of prep.
\* Flow._orch calls _run on every node, and AsyncNode._run throws.
Prepare ==
    /\ pc = "running"
    /\ stage = "Idle"
    /\ IF ~asyncOrch /\ IsAsyncNode(kind[curr])
       THEN /\ pc' = "failed"
            /\ flowError' = UseRunAsyncError
            /\ UNCHANGED <<stage, prepCalls, inProgress>>
       ELSE /\ stage' = "Preparing"
            /\ prepCalls' = prepCalls + 1
            /\ inProgress' = inProgress + 1
            /\ UNCHANGED <<pc, flowError>>
    /\ UNCHANGED <<config, curr, hop, lastAction, prevNode, flowResult, curRetry,
                   tasks, execErr, postArg, prepRes, postPrep, postCalls, shared, routerVars, compilerVars, runVars, nestVars, docVars>>

\* prep returns p and `this._exec(p)` runs up to its first await.  A batch
\* node's prep returns a collection (`items || []`), any other node's a value.
StartExec ==
    /\ pc = "running"
    /\ stage = "Preparing"
    /\ \E n \in 0..MaxItems :
          /\ IsBatchKind(kind[curr]) \/ n = 1
          /\ prepRes' = PrepResult(kind[curr], ItemsOfLen(n))
          /\ tasks' = StartTasks(kind[curr], ExecInputs(kind[curr], prepRes'), maxRetries)
    /\ stage' = "Executing"
    /\ curRetry' = 0
    /\ UNCHANGED <<config, pc, curr, hop, lastAction, prevNode, flowResult,
                   flowError, execErr, postArg, postPrep, prepCalls, postCalls, inProgress,
                   shared, routerVars, compilerVars, runVars, nestVars, docVars>>

\* mutant: a later rejection replaces the one _exec rejected with
RejectionLastWins(t) == IF t.pc = "rejected" THEN t.error ELSE execErr

\* a rejected element rejects curr._exec(p) unless it is already rejected
Rejection(t) == IF t.pc = "rejected" /\ execErr = NoError THEN t.error ELSE execErr

\* element i's _exec has moved to t with this.curRetry = cr; when it resolved,
\* AsyncBatchNode's loop calls _exec for the next element (`this.curRetry = 0`)
ElementStep(i, t, cr) ==
    LET ts == [tasks EXCEPT ![i] = t]
        launches == t.pc = "resolved" /\ i < Len(ts) /\ ts[i + 1].pc = "pending"
    IN  /\ tasks' = IF launches THEN LaunchFrom(ts, i + 1, maxRetries) ELSE ts
        /\ curRetry' = IF launches THEN 0 ELSE cr
        /\ execErr' = Rejection(t)

\* `this.curRetry++`, the loop test and the next attempt of element i
NextAttempt(i) ==
    ElementStep(i, EnterAttempt(tasks[i], curRetry + 1, maxRetries), curRetry + 1)

\* the exec promise of element i settles and the element's _exec continues:
\* it returns the value, or catches the error and calls the fallback, waits,
\* or goes round the loop
SettleExec(i) ==
    /\ i \in 1..Len(tasks)
    /\ tasks[i].pc = "awaitExec"
    /\ \/ ElementStep(i, ExecFulfilled(tasks[i]), curRetry)
       \/ /\ IsLastAttempt(curRetry, maxRetries)
          /\ \E rethrows \in BOOLEAN :
                ElementStep(i, FallbackCalled(tasks[i], rethrows), curRetry)
       \/ /\ ~IsLastAttempt(curRetry, maxRetries)
          /\ wait > 0
          /\ ElementStep(i, [tasks[i] EXCEPT !.pc = "awaitWait"], curRetry)
       \/ /\ ~IsLastAttempt(curRetry, maxRetries)
          /\ wait = 0
          /\ NextAttempt(i)
    /\ UNCHANGED <<config, pc, curr, hop, lastAction, prevNode, flowResult,
                   flowError, stage, postArg, prepRes, postPrep, prepCalls, postCalls, inProgress,
                   shared, routerVars, compilerVars, runVars, nestVars, docVars>>

\* the retry delay of element i elapses
ResumeWait(i) ==
    /\ i \in 1..Len(tasks)
    /\ tasks[i].pc = "awaitWait"
    /\ NextAttempt(i)
    /\ UNCHANGED <<config, pc, curr, hop, lastAction, prevNode, flowResult,
                   flowError, stage, postArg, prepRes, postPrep, prepCalls, postCalls, inProgress,
                   shared, routerVars, compilerVars, runVars, nestVars, docVars>>

\* `await this._exec(p)` resolves and post is called with the results
PostBegin ==
    /\ pc = "running"
    /\ stage = "Executing"
    /\ execErr = NoError
    /\ ExecResolved(tasks)
    /\ stage' = "PostProcessing"
    /\ postArg' = Results(tasks)
    /\ postPrep' = prepRes
    /\ UNCHANGED prepRes
    /\ postCalls' = postCalls + 1
    /\ UNCHANGED <<config, pc, curr, hop, lastAction, prevNode, flowResult,
                   flowError, curRetry, tasks, execErr, prepCalls, inProgress,
                   shared, routerVars, compilerVars, runVars, nestVars, docVars>>

\* post writes the shared context and returns its label; _run returns
PostReturn ==
    /\ pc = "running"
    /\ stage = "PostProcessing"
    /\ \E label \in PostLabels : lastAction' = label
    /\ prevNode' = curr
    /\ shared' = shared \cup {curr}
    /\ stage' = "Done"
    /\ inProgress' = inProgress - 1
    /\ UNCHANGED <<config, pc, curr, hop, flowResult, flowError, curRetry, tasks,
                   execErr, postArg, prepRes, postPrep, prepCalls, postCalls, routerVars, compilerVars, runVars, nestVars, docVars>>

\* `await this._exec(p)` rejects: _run, _orch and the run reject with it
ExecThrow ==
    /\ pc = "running"
    /\ stage = "Executing"
    /\ execErr # NoError
    /\ stage' = "Failed"
    /\ pc' = "failed"
    /\ flowError' = execErr
    /\ inProgress' = inProgress - 1
    /\ UNCHANGED <<config, curr, hop, lastAction, prevNode, flowResult, curRetry,
                   tasks, execErr, postArg, prepRes, postPrep, prepCalls, postCalls, shared, routerVars, compilerVars, runVars, nestVars, docVars>>

\* mutant: the loop keeps the node it has just run
NextCurrStays(c, nextNode) == c

\* `curr = { ...nextNode }; Object.setPrototypeOf(curr, ...)`
NextCurr(c, nextNode) == nextNode

\* getNextNode, then the clone of the successor or the end of the loop
Advance ==
    /\ pc = "running"
    /\ RunReturned(stage)
    /\ LET nextNode == GetNextNode(successors[curr], lastAction) IN
       \/ /\ nextNode = None
          /\ pc' = "done"
          /\ flowResult' = lastAction
          /\ curr' = None
          /\ UNCHANGED <<hop, flowError, stage, curRetry, tasks, execErr, postArg, prepRes, postPrep,
                         prepCalls, postCalls>>
       \/ /\ nextNode \in NodeIds
          /\ hop < MaxHops
          /\ curr' = NextCurr(curr, nextNode)
          /\ hop' = hop + 1
          /\ stage' = "Idle"
          /\ curRetry' = 0
          /\ tasks' = <<>>
          /\ execErr' = NoError
          /\ postArg' = <<>>
          /\ prepRes' = None
          /\ postPrep' = None
          /\ prepCalls' = 0
          /\ postCalls' = 0
          /\ UNCHANGED <<pc, flowResult, flowError>>
       \/ /\ nextNode = ProtoMember
          /\ pc' = "failed"
          /\ flowError' = TypeErrorNotAFunction
          /\ UNCHANGED <<curr, hop, flowResult, stage, curRetry, tasks, execErr,
                         postArg, prepRes, postPrep, prepCalls, postCalls>>
    /\ UNCHANGED <<config, lastAction, prevNode, inProgress, shared, routerVars, compilerVars, runVars, nestVars, docVars>>

Next ==
    \/ Run
    \/ Prepare
    \/ StartExec
    \/ \E i \in 1..MaxItems : SettleExec(i)
    \/ \E i \in 1..MaxItems : ResumeWait(i)
    \/ PostBegin
    \/ PostReturn
    \/ ExecThrow
    \/ Advance

Spec == Init /\ [][Next]_vars

\* the steps of a run that has started: every stage of a node returns or
\* throws, and the continuation after an await is run
Stages ==
    \/ Prepare
    \/ StartExec
    \/ \E i \in 1..MaxItems : SettleExec(i)
    \/ \E i \in 1..MaxItems : ResumeWait(i)
    \/ PostBegin
    \/ PostReturn
    \/ ExecThrow
    \/ Advance

\* the runs of a flow over nodes that make one _exec call per lifecycle
OrchInit ==
    /\ Init
    /\ kind["n1"] \in {"Node", "AsyncNode"}

SpecFair == OrchInit /\ [][Next]_vars /\ WF_vars(Stages)

(***************************************************************************)
(* The router node on its own: cases and score are drawn, post is applied. *)
(***************************************************************************)
EngineIdle ==
    /\ successors = [n \in NodeIds |-> EmptyMap]
    /\ kind = [n \in NodeIds |-> "Node"]
    /\ maxRetries = 1
    /\ wait = 0
    /\ asyncOrch = FALSE
    /\ pc = "init"
    /\ curr = None
    /\ hop = 0
    /\ lastAction = Null
    /\ prevNode = None
    /\ flowResult = None
    /\ flowError = NoError
    /\ stage = "Idle"
    /\ curRetry = 0
    /\ tasks = <<>>
    /\ execErr = NoError
    /\ postArg = <<>>
    /\ prepRes = None
    /\ postPrep = None
    /\ prepCalls = 0
    /\ postCalls = 0
    /\ inProgress = 0
    /\ shared = {}

\* the i-th declared case carries the i-th label
CaseLists ==
    UNION {{[i \in 1..n |-> [label |-> CaseLabels[i], when |-> ws[i]]] :
              ws \in [1..n -> Whens]} : n \in 0..MaxCases}

RouterInit ==
    /\ EngineIdle
    /\ CompilerIdle
    /\ RunsIdle
    /\ NestIdle
    /\ DocIdle
    /\ cases \in CaseLists
    /\ score \in 0..MaxScore
    /\ routed = None

\* node.post of the router runs
Route ==
    /\ routed = None
    /\ routed' = RouterPost(cases, score)
    /\ UNCHANGED <<cases, score, engineVars, compilerVars, runVars, nestVars, docVars>>

RouterNext == Route

SpecRouter == RouterInit /\ [][RouterNext]_vars

(***************************************************************************)
(* Compiling a description and running the compiled flow, called directly  *)
(* (compile, then flow.run) or through MetaAgentCreator.createAndRunAgent.  *)
(***************************************************************************)
DescIds == {"a", "b"}

\* the node specs drawn for an id: a data node without and with post.next, a
\* router with one case, a kind that nothing defines, and a kind that names a
\* member of Object.prototype
NodeSpecsOf(id) ==
    {NodeSpec(id, "data", Undefined, << >>, << >>, EmptyMap, 0),
     NodeSpec(id, "data", "x", << >>, << >>, EmptyMap, 0),
     NodeSpec(id, "router", Undefined, <<[label |-> "x", when |-> NoWhen]>>, << >>, EmptyMap, 0),
     NodeSpec(id, "custom", Undefined, << >>, << >>, EmptyMap, 0),
     NodeSpec(id, "constructor", Undefined, << >>, << >>, EmptyMap, 0)}

\* the lists of node specs; up to the names of the ids, the first carries "a"
NodeLists(most) ==
    UNION {{ns \in [1..n -> UNION {NodeSpecsOf(id) : id \in DescIds}] :
               n = 0 \/ ns[1].id = "a"} : n \in 0..most}

EdgeLists(most) ==
    UNION {[1..n -> {EdgeSpec(f, t, l) : f \in DescIds, t \in DescIds, l \in {Undefined, "x"}}] :
             n \in 0..most}

Description(v, e, ns, es) ==
    [has |-> RequiredFields, version |-> v, entry |-> e, nodes |-> ns, edges |-> es]

\* the descriptions of at most n node specs and m edge specs
FullDescriptions(n, m) ==
    {Description("pf-js/1.0", e, ns, es) :
        e \in DescIds, ns \in NodeLists(n), es \in EdgeLists(m)}

\* descriptions of at most one node and one edge, with a top-level field
\* left out or a version of another format
SmallDescriptions == FullDescriptions(1, 1)

PartialDescriptions ==
    {[d EXCEPT !.has = RequiredFields \ {f}] : d \in SmallDescriptions, f \in RequiredFields}
    \cup {[d EXCEPT !.version = "1.0"] : d \in SmallDescriptions}

\* README, "Data Nodes": one data node saving "{{exec.message}}"
DataExample ==
    Description("pf-js/1.0", "greet",
        <<NodeSpec("greet", "data", Undefined, << >>,
                   <<[path |-> <<"out">>, value |-> Template(<<"exec", "message">>)]>>,
                   (<<"message">> :> "hi"), 0)>>,
        << >>)

\* the same node with the save's template under the key `valueTemplate`:
\* `save.value` is undefined
DataExampleValueTemplate ==
    Description("pf-js/1.0", "greet",
        <<NodeSpec("greet", "data", Undefined, << >>,
                   <<[path |-> <<"out">>, value |-> NoTemplate]>>,
                   (<<"message">> :> "hi"), 0)>>,
        << >>)

\* the same node saving "{{result.message}}"
DataExampleResult ==
    Description("pf-js/1.0", "greet",
        <<NodeSpec("greet", "data", Undefined, << >>,
                   <<[path |-> <<"out">>, value |-> Template(<<"result", "message">>)]>>,
                   (<<"message">> :> "hi"), 0)>>,
        << >>)

\* the mock LLM's text contains none of the words the conditions look for
Includes == [op |-> "includes", a |-> 0, b |-> 0]

DataSaving(id, message) ==
    NodeSpec(id, "data", Undefined, << >>,
             <<[path |-> <<"result">>, value |-> Template(<<"exec", "message">>)]>>,
             (<<"message">> :> message), 0)

\* examples/test-compiler.js: testConfig
TestConfig ==
    Description("pf-js/1.0", "greet",
        <<NodeSpec("greet", "llm", "analyze", << >>,
                   <<[path |-> <<"greeting">>, value |-> Template(<<"result", "text">>)],
                     [path |-> <<"model_used">>, value |-> Template(<<"result", "meta", "model">>)]>>,
                   EmptyMap, 0),
          NodeSpec("analyze", "llm", "route", << >>,
                   <<[path |-> <<"analysis">>, value |-> Template(<<"result", "text">>)]>>,
                   EmptyMap, 0),
          NodeSpec("route", "router", Undefined,
                   <<[label |-> "positive", when |-> Includes],
                     [label |-> "negative", when |-> Includes],
                     [label |-> "neutral", when |-> [op |-> "true", a |-> 0, b |-> 0]]>>,
                   << >>, EmptyMap, 0),
          DataSaving("positive", "Great! The greeting is positive."),
          DataSaving("negative", "The greeting could be improved."),
          DataSaving("neutral", "The greeting is neutral.")>>,
        <<EdgeSpec("greet", "analyze", Undefined),
          EdgeSpec("analyze", "route", Undefined),
          EdgeSpec("route", "positive", "positive"),
          EdgeSpec("route", "negative", "negative"),
          EdgeSpec("route", "neutral", "neutral")>>)

\* the review / revise cycle of the content creation agent, each edge under
\* the label its source returns; revise declares loop_guard.max_iterations
LoopGuardIterations == 3
ReviewLoop ==
    Description("pf-js/1.0", "review",
        <<NodeSpec("review", "llm", "revise", << >>,
                   <<[path |-> <<"review">>, value |-> Template(<<"result", "text">>)]>>,
                   EmptyMap, 0),
          NodeSpec("revise", "llm", "review", << >>,
                   <<[path |-> <<"draft">>, value |-> Template(<<"result", "text">>)]>>,
                   EmptyMap, LoopGuardIterations)>>,
        <<EdgeSpec("review", "revise", "revise"),
          EdgeSpec("revise", "review", "review")>>)

\* one node that asks the LLM and saves the answer, of kind llm and of kind
\* async, and the llm node with retry: { max: 2, wait: 1 }
Asking(k) ==
    WithPrompt(NodeSpec("ask", k, "done", << >>,
                        <<[path |-> <<"answer">>, value |-> Template(<<"result", "text">>)]>>,
                        EmptyMap, 0),
               Template(<<"ctx", "name">>))
LlmExample == Description("pf-js/1.0", "ask", <<Asking("llm")>>, << >>)
AsyncExample == Description("pf-js/1.0", "ask", <<Asking("async")>>, << >>)
LlmRetry == Description("pf-js/1.0", "ask", <<WithRetry(Asking("llm"), 2, 1)>>, << >>)

\* the llm node with retry: { max: -1, wait: -1 }
LlmNegativeRetry ==
    Description("pf-js/1.0", "ask", <<WithRetry(Asking("llm"), -1, -1)>>, << >>)

\* an llm node whose prompt is `{{ctx['seen']=1}}`
PromptAssign ==
    Description("pf-js/1.0", "ask",
        <<WithPrompt(NodeSpec("ask", "llm", Undefined, << >>, << >>, EmptyMap, 0),
                     AssignTemplate("seen", "1"))>>,
        << >>)

\* a data node followed by an async node, and the same followed by a batch
\* node, every edge under "default"
Plain(id, k) == NodeSpec(id, k, Undefined, << >>, << >>, EmptyMap, 0)
MixedAsync ==
    Description("pf-js/1.0", "start", <<Plain("start", "data"), Plain("ask", "async")>>,
        <<EdgeSpec("start", "ask", Undefined)>>)
MixedAsyncBatch ==
    Description("pf-js/1.0", "start",
        <<Plain("start", "data"), Plain("ask", "async"), Plain("each", "batch")>>,
        <<EdgeSpec("start", "ask", Undefined), EdgeSpec("ask", "each", Undefined)>>)

\* three edges leave "a": one under the default label, then two under "x"
OverwriteEdges ==
    Description("pf-js/1.0", "a", <<Plain("a", "data"), Plain("b", "data")>>,
        <<EdgeSpec("a", "a", Undefined), EdgeSpec("a", "a", "x"), EdgeSpec("a", "b", "x")>>)

\* a router whose label "x" is declared and two edges that both leave it
\* under "x"
RepeatedEdge ==
    Description("pf-js/1.0", "a",
        <<NodeSpec("a", "router", Undefined, <<[label |-> "x", when |-> NoWhen]>>, << >>,
                   EmptyMap, 0)>>,
        <<EdgeSpec("a", "a", "x"), EdgeSpec("a", "a", "x")>>)

Examples ==
    {DataExample, DataExampleValueTemplate, DataExampleResult, TestConfig, ReviewLoop,
     LlmExample, AsyncExample, LlmRetry, PromptAssign, MixedAsync, MixedAsyncBatch,
     OverwriteEdges, RepeatedEdge, LlmNegativeRetry}

\* the shared context the caller passes to run
InitialContext(d) ==
    IF d = TestConfig THEN (<<"name">> :> "Alice" @@ <<"_lastResult">> :> Null)
    ELSE IF d \in {LlmExample, AsyncExample, LlmRetry, LlmNegativeRetry} THEN (<<"name">> :> "World")
    ELSE EmptyMap

\* the calling program: compile and flow.run with a compiler that was given
\* env.llm ("compile") or no env ("noLlm"), compile and flow.runAsync
\* ("runAsync"), or createAndRunAgent ("agent")
Callers == {"compile", "agent", "noLlm", "runAsync"}

\* `this.env.llm`
LlmSupplied == caller # "noLlm"

CompilerInit ==
    /\ EngineIdle
    /\ RouterIdle
    /\ RunsIdle
    /\ NestIdle
    /\ DocIdle
    /\ caller \in Callers
    /\ reply \in Replies
    /\ caller # "agent" => reply = "json"
    /\ description \in FullDescriptions(MaxNodeSpecs, MaxEdgeSpecs)
                          \cup PartialDescriptions \cup Examples
    /\ reply # "json" => description \in SmallDescriptions
    /\ caller \in {"noLlm", "runAsync"} => description \in Examples
    /\ created = NotCreated
    /\ compiled = NotCompiled
    /\ agent = "init"
    /\ ctx = InitialContext(description)
    /\ visits = EmptyMap

\* the engine state a compiled run does not use
unusedVars == <<successors, kind, maxRetries, wait, asyncOrch, prevNode, curRetry,
                tasks, execErr, postArg, prepRes, postPrep, prepCalls, postCalls, inProgress, shared,
                routerVars, runVars, nestVars, docVars>>

\* flow.run(shared): _orch clones the start node
StartRun(c) ==
    /\ pc' = "running"
    /\ curr' = c.startNode
    /\ hop' = 1
    /\ stage' = "Idle"
    /\ lastAction' = Null
    /\ visits' = [id \in DOMAIN c.nodes |-> 0]

\* the program calls compiler.compile(config)
CompileCall ==
    /\ caller # "agent"
    /\ agent = "init"
    /\ compiled' = Compile(description)
    /\ agent' = IF compiled'.threw THEN "threw" ELSE "compiled"
    /\ flowError' = IF compiled'.threw THEN Val(compiled'.error, "-", 0) ELSE flowError
    /\ UNCHANGED <<unusedVars, pc, curr, hop, stage, lastAction, flowResult, visits,
                   description, caller, reply, created, ctx>>

\* the program calls flow.run(shared) on the flow compile returned
FlowRun ==
    /\ caller \in {"compile", "noLlm"}
    /\ agent = "compiled"
    /\ agent' = "running"
    /\ StartRun(compiled)
    /\ UNCHANGED <<unusedVars, flowResult, flowError, description, caller, reply,
                   created, compiled, ctx>>

\* createAndRunAgent(description, shared) up to `await flow.run(shared)`
CreateAndRunAgent ==
    /\ caller = "agent"
    /\ agent = "init"
    /\ created' = CreateAgentFromDescription(reply, description)
    /\ IF created'.success
       THEN /\ compiled' = created'.compiled
            /\ agent' = "running"
            /\ StartRun(created'.compiled)
            /\ UNCHANGED flowError
       ELSE /\ agent' = "threw"
            /\ flowError' = Val("Failed to create agent", "-", 0)
            /\ UNCHANGED <<compiled, pc, curr, hop, stage, lastAction, visits>>
    /\ UNCHANGED <<unusedVars, flowResult, description, caller, reply, ctx>>

\* the run rejects with error e
RunFails(e) ==
    /\ pc' = "failed"
    /\ agent' = "threw"
    /\ flowError' = e

\* flow.runAsync(shared) on the flow compile returned: a Flow has no
\* runAsync; AsyncFlow._runAsync calls _orchAsync; AsyncBatchFlow._runAsync
\* calls it once per element of `await this.prepAsync(shared) || []`, and
\* the prepAsync it inherits returns nothing
FlowRunAsync ==
    /\ caller = "runAsync"
    /\ agent = "compiled"
    /\ IF compiled.flow = "AsyncFlow"
       THEN /\ agent' = "running"
            /\ StartRun(compiled)
            /\ UNCHANGED <<flowResult, flowError>>
       ELSE IF compiled.flow = "AsyncBatchFlow"
       THEN /\ agent' = "returned"
            /\ pc' = "done"
            /\ flowResult' = Null
            /\ visits' = [id \in DOMAIN compiled.nodes |-> 0]
            /\ UNCHANGED <<curr, hop, stage, lastAction, flowError>>
       ELSE /\ agent' = "threw"
            /\ flowError' = Val("TypeError: flow.runAsync is not a function", "-", 0)
            /\ UNCHANGED <<pc, curr, hop, stage, lastAction, visits, flowResult>>
    /\ UNCHANGED <<unusedVars, description, caller, reply, created, compiled, ctx>>

\* the engine state a lifecycle of a compiled node does not use
unusedByExec == <<successors, kind, maxRetries, wait, asyncOrch, prevNode, curRetry,
                  execErr, postArg, prepRes, postPrep, prepCalls, postCalls, inProgress, shared,
                  routerVars, runVars, nestVars, docVars>>

\* the elements _exec maps over: one when the node is no batch node, none
\* when the shared context holds no items
Elements(n, sh) ==
    IF n.kind \in {"batch", "parallel"} /\ ~HasKey(sh, "items") THEN << >> ELSE <<n.id>>

\* `curr.setParams(p); lastAction = await curr._run(shared)` for a compiled
\* node, up to the call of post: prep, then _exec, in which every call of
\* exec fulfils, or every call rejects (the collaborator fails, or there is
\* no env.llm) and the default fallback rethrows.  Flow._orch calls _run,
\* which an AsyncNode does not have.
RunCompiledNode ==
    /\ agent = "running"
    /\ pc = "running"
    /\ stage = "Idle"
    /\ LET node == compiled.nodes[curr]
           mr == RetryMax(node.spec)
           items == Elements(node.spec, ctx)
       IN
       IF node.class = "Object"
       THEN /\ RunFails(TypeErrorNotAFunction)
            /\ UNCHANGED <<stage, visits, ctx, tasks>>
       ELSE IF IsAsyncNode(node.class) /\ caller # "runAsync"
       THEN /\ RunFails(UseRunAsyncError)
            /\ UNCHANGED <<stage, visits, ctx, tasks>>
       ELSE /\ visits' = [visits EXCEPT ![curr] = @ + 1]
            /\ ctx' = PrepShared(node.spec, ctx)
            /\ \/ /\ (NeedsLlm(node.spec) /\ mr >= 1) => LlmSupplied
                  /\ tasks' = [i \in 1..Len(items) |->
                                  LET t == Launch(NewTask(items[i]), mr) IN
                                  IF t.pc = "awaitExec" THEN ExecFulfilled(t) ELSE t]
                  /\ stage' = "PostProcessing"
                  /\ UNCHANGED <<pc, agent, flowError>>
               \/ /\ node.spec.kind \in {"llm", "http", "async"}
                  /\ mr >= 1
                  /\ LET t == ExecAllFail(Launch(NewTask(curr), mr), 0, mr) IN
                       /\ tasks' = <<t>>
                       /\ RunFails(Val(IF NeedsLlm(node.spec) /\ ~LlmSupplied
                                       THEN MissingLlmError ELSE CollaboratorError,
                                       "-", t.execCalls))
                  /\ stage' = "Failed"
    /\ UNCHANGED <<unusedByExec, curr, hop, lastAction, flowResult, description, caller,
                   reply, created, compiled>>

\* `this.post(shared, p, await this._exec(p))`: post / postAsync of the
\* compiled node writes the shared context and returns the label
PostCompiledNode ==
    /\ agent = "running"
    /\ pc = "running"
    /\ stage = "PostProcessing"
    /\ LET node == compiled.nodes[curr] IN
         /\ ctx' = PostShared(node.spec, ctx, ExecOutcome(node.spec, ctx))
         /\ lastAction' = PostLabel(node.spec, ctx')
    /\ stage' = "Done"
    /\ UNCHANGED <<unusedVars, pc, agent, flowError, curr, hop, flowResult, visits,
                   description, caller, reply, created, compiled>>

\* getNextNode on the compiled successors, then the clone of the successor
\* or the end of the run
AdvanceCompiled ==
    /\ agent = "running"
    /\ pc = "running"
    /\ RunReturned(stage)
    /\ LET nextNode == GetNextNode(compiled.successors[curr], lastAction) IN
       \/ /\ nextNode = None
          /\ pc' = "done"
          /\ agent' = "returned"
          /\ flowResult' = lastAction
          /\ curr' = None
          /\ UNCHANGED <<hop, stage, flowError>>
       \/ /\ nextNode \in DOMAIN compiled.nodes
          /\ hop < MaxRunHops
          /\ curr' = nextNode
          /\ hop' = hop + 1
          /\ stage' = "Idle"
          /\ UNCHANGED <<pc, agent, flowResult, flowError>>
    /\ UNCHANGED <<unusedVars, lastAction, visits, description, caller, reply,
                   created, compiled, ctx>>

CompilerNext ==
    \/ CompileCall
    \/ FlowRun
    \/ FlowRunAsync
    \/ CreateAndRunAgent
    \/ RunCompiledNode
    \/ PostCompiledNode
    \/ AdvanceCompiled

SpecCompiler == CompilerInit /\ [][CompilerNext]_vars

(***************************************************************************)
(* Two runs over one node graph.  Flow._orch and AsyncFlow._orchAsync work *)
(* on a copy of each node: `curr = { ...node }`.  The node objects live in *)
(* a heap so that a copy and the registered node are different objects.    *)
(***************************************************************************)
Runs == {1, 2}

\* `this.params = {}` of the constructor, and the `p` of each _orch call
EmptyParams == "{}"
ParamsOf(r) == IF r = 1 THEN "p1" ELSE "p2"

\* the object a run's `{ ...node }` creates
CloneObj(r) == IF r = 1 THEN "clone1" ELSE "clone2"
Objects == NodeIds \cup {CloneObj(r) : r \in Runs}

\* the own properties of a node that a run reads or writes
Constructed(succ) == [params |-> EmptyParams, curRetry |-> 0, successors |-> succ]

\* curr = nextNode: the run works on the registered node itself
CurrIsNode(n, r) == n
\* curr = { ...node }: a new object
CurrOf(n, r) == CloneObj(r)

\* the labels post returns in the two runs
RunLabels == {Null, "a", "constructor"}

NewRun(r) ==
    [pc |-> "init", obj |-> CloneObj(r), node |-> None, hop |-> 0, stage |-> "Idle",
     execCalls |-> 0, lastAction |-> Null, shared |-> {}, params |-> ParamsOf(r),
     error |-> NoError]

\* two flow.run() calls are about to be made on one graph of Nodes
TwoRunsInit ==
    /\ successors \in [NodeIds -> SuccMaps]
    /\ successors["n2"] = EmptyMap
    /\ kind = [n \in NodeIds |-> "Node"]
    /\ maxRetries \in 1..MaxRetriesBound
    /\ wait = 0
    /\ asyncOrch \in BOOLEAN
    /\ pc = "init" /\ curr = None /\ hop = 0 /\ lastAction = Null
    /\ prevNode = None /\ flowResult = None /\ flowError = NoError
    /\ stage = "Idle" /\ curRetry = 0 /\ tasks = <<>> /\ execErr = NoError
    /\ postArg = <<>> /\ prepRes = None /\ postPrep = None
    /\ prepCalls = 0 /\ postCalls = 0 /\ inProgress = 0
    /\ shared = {}
    /\ RouterIdle
    /\ CompilerIdle
    /\ heap = [o \in Objects |->
                 Constructed(IF o \in NodeIds THEN successors[o] ELSE EmptyMap)]
    /\ runs = [r \in Runs |-> NewRun(r)]
    /\ actor = 0
    /\ NestIdle
    /\ DocIdle

\* what the engine's single-run variables keep while two runs are made
singleRun == <<engineVars, routerVars, compilerVars, nestVars, docVars>>

\* one pass of the loop up to its first await: the copy, setParams(p), prep,
\* and _exec starting its loop at curRetry 0 with the first call of exec
EnterNode(r, n) ==
    LET o == CurrOf(n, r) IN
    /\ heap' = [heap EXCEPT ![o] = [heap[n] EXCEPT !.params = runs[r].params,
                                                   !.curRetry = 0]]
    /\ runs' = [runs EXCEPT ![r] = [@ EXCEPT !.pc = "running", !.obj = o, !.node = n,
                                             !.hop = @ + 1, !.stage = "Executing",
                                             !.execCalls = 1]]

\* mutant: an await holds the thread, so a promise settles only while no other
\* run is waiting for one
SettlesInTurn(r) ==
    /\ runs[r].pc = "running"
    /\ runs[r].stage = "Executing"
    /\ \A q \in Runs \ {r} : runs[q].stage # "Executing"

\* `await this.exec(prepRes)` of run r: the promise the run is suspended on
\* can settle, whatever the other run is doing
Settles(r) ==
    /\ runs[r].pc = "running"
    /\ runs[r].stage = "Executing"

\* flow.run(shared) of run r: _orch starts from the start node
BeginRun(r) ==
    /\ runs[r].pc = "init"
    /\ EnterNode(r, startNode)
    /\ actor' = r
    /\ UNCHANGED singleRun

\* exec fulfils: _exec returns, post writes to the run's shared and returns l
ExecFulfils(r) ==
    /\ Settles(r)
    /\ \E l \in RunLabels :
         runs' = [runs EXCEPT ![r] = [@ EXCEPT !.stage = "Done", !.lastAction = l,
                                               !.shared = @ \cup {runs[r].node}]]
    /\ actor' = r
    /\ UNCHANGED <<heap, singleRun>>

\* exec rejects: the catch block of _exec reads and the loop header advances
\* this.curRetry; the default execFallback rethrows on the last attempt
ExecRejects(r) ==
    /\ Settles(r)
    /\ LET o == runs[r].obj
           cr == heap[o].curRetry
       IN IF IsLastAttempt(cr, maxRetries)
          THEN /\ runs' = [runs EXCEPT ![r] = [@ EXCEPT !.pc = "failed", !.stage = "Failed",
                                                        !.error = ExecError("-", runs[r].execCalls)]]
               /\ UNCHANGED heap
          ELSE /\ heap' = [heap EXCEPT ![o].curRetry = cr + 1]
               /\ IF LoopContinues(cr + 1, maxRetries)
                  THEN runs' = [runs EXCEPT ![r].execCalls = @ + 1]
                  ELSE \E l \in RunLabels :
                         runs' = [runs EXCEPT ![r] = [@ EXCEPT !.stage = "Done",
                                                               !.lastAction = l,
                                                               !.shared = @ \cup {runs[r].node}]]
    /\ actor' = r
    /\ UNCHANGED singleRun

\* `await curr._run(shared)` resumes: getNextNode, then the next pass or the end
Continue(r) ==
    /\ runs[r].pc = "running"
    /\ runs[r].stage = "Done"
    /\ LET nextNode == GetNextNode(heap[runs[r].obj].successors, runs[r].lastAction) IN
       \/ /\ nextNode = None
          /\ runs' = [runs EXCEPT ![r].pc = "done"]
          /\ UNCHANGED heap
       \/ /\ nextNode \in NodeIds
          /\ runs[r].hop < MaxHops
          /\ EnterNode(r, nextNode)
       \/ /\ nextNode = ProtoMember
          /\ runs' = [runs EXCEPT ![r] = [@ EXCEPT !.pc = "failed",
                                                   !.error = TypeErrorNotAFunction]]
          /\ UNCHANGED heap
    /\ actor' = r
    /\ UNCHANGED singleRun

TwoRunsNext ==
    \E r \in Runs :
        \/ BeginRun(r)
        \/ ExecFulfils(r)
        \/ ExecRejects(r)
        \/ Continue(r)

SpecTwoRuns == TwoRunsInit /\ [][TwoRunsNext]_vars

\* the event loop runs every continuation that is ready, and the signals run
\* 2 waits for arrive; nothing is assumed of the signal run 1 waits for
SpecTwoRunsFair ==
    /\ TwoRunsInit
    /\ [][TwoRunsNext]_vars
    /\ WF_vars(BeginRun(2))
    /\ WF_vars(ExecFulfils(2) \/ ExecRejects(2))
    /\ WF_vars(Continue(2))

(***************************************************************************)
(* A Flow used as a node, and the batch flows: the top flow holds the      *)
(* inner flow and the node "after"; the inner flow holds i1 and i2.        *)
(***************************************************************************)
FlowClasses == {"Flow", "BatchFlow", "AsyncBatchFlow", "AsyncParallelBatchFlow"}

NestNodes == {"inner", "after", "i1", "i2"}

\* `new Flow(start)` of the top flow and of the inner flow
TopStart == "inner"
InnerStart == "i1"

\* the node is a Flow or an AsyncFlow: its _run is Flow._run
IsFlowNode(n) == n = "inner"

\* the classes run with runAsync: their _runAsync calls _orchAsync
AsyncOrchestrator(class) ==
    class \in {"AsyncFlow", "AsyncBatchFlow", "AsyncParallelBatchFlow"}

\* the classes whose _run or _runAsync makes one call without params
SingleOrch(class) == class \in {"Flow", "AsyncFlow"}

\* the labels a plain node's post returns
NestLabels == {Null, "a"}

\* flow.params, and the parameter sets the flow's prep returns
BaseParams == {("k" :> "base")}
ParamSets == {("k" :> "set"), ("m" :> "set")}
ParamSetLists == UNION {[1..n -> ParamSets] : n \in 0..MaxParamSets}

\* successor maps next() can build towards the nodes of T
NestMaps(T) == UNION {[D -> T] : D \in SUBSET RegLabels}

\* mutant: { ...bp, ...this.params }
OverlayBaseWins(base, bp) ==
    [x \in DOMAIN base \cup DOMAIN bp |-> IF x \in DOMAIN base THEN base[x] ELSE bp[x]]

\* { ...this.params, ...bp }
Overlay(base, bp) ==
    [x \in DOMAIN base \cup DOMAIN bp |-> IF x \in DOMAIN bp THEN bp[x] ELSE base[x]]

\* _orch(shared, params = null): `const p = params || { ...this.params }`;
\* given is << >> for null and <<params>> otherwise
OrchParams(given, own) == IF given = << >> THEN own ELSE given[1]

\* the sub-runs come one after the other: `for (const bp of pr) await ...`
Sequential(class) == class \in {"BatchFlow", "AsyncBatchFlow"}

\* the params of the _orch calls the top flow makes: Flow._run calls _orch
\* once without params, the batch flows once per parameter set
OrchCalls(class, base, sets) ==
    IF SingleOrch(class) THEN <<OrchParams(<< >>, base)>>
    ELSE [i \in 1..Len(sets) |-> OrchParams(<<Overlay(base, sets[i])>>, base)]

\* mutant: BaseNode.post
FlowPostNothing(execRes) == Undefined

\* Flow.post(shared, prepRes, execRes) { return execRes; }
FlowPost(execRes) == execRes

\* the state of one _orch (async: _orchAsync) call at a node: `curr`,
\* `lastAction`, `p`, `shared`
NewFrame(n, p, sh, async) ==
    [curr |-> n, stage |-> "Idle", lastAction |-> Null, params |-> p, shared |-> sh,
     async |-> async]

\* an _orch call of the top flow that is still to be made, and its start
NewOrch(p) ==
    [status |-> "pending", frames |-> << >>, params |-> p, result |-> Null, trace |-> << >>]
Started(o) ==
    [o EXCEPT !.status = "active",
              !.frames = <<NewFrame(TopStart, o.params, "shared",
                                    AsyncOrchestrator(nest.class))>>]

NestInit ==
    /\ EngineIdle
    /\ RouterIdle
    /\ CompilerIdle
    /\ RunsIdle
    /\ DocIdle
    /\ nest \in [class : FlowClasses,
                 links : {[n \in NestNodes |->
                              CASE n = "inner" -> out
                                [] n = "i1" -> in
                                [] OTHER -> EmptyMap] :
                             out \in NestMaps({"after"}), in \in NestMaps({"i2"})},
                 base : BaseParams,
                 sets : ParamSetLists,
                 inner : {"Flow"},
                 coop : {{}},
                 throwing : {{}}]
    /\ nest.class = "Flow" => nest.sets = << >>
    /\ orch = << >>
    /\ top = [pc |-> "init", result |-> Null]

notNested == <<engineVars, routerVars, compilerVars, runVars, docVars>>

\* flow.run(shared) / flow.runAsync(shared): _run of the top flow up to the
\* first _orch call (Flow, BatchFlow, AsyncBatchFlow) or to all of them
\* (AsyncParallelBatchFlow)
RunTop ==
    /\ top.pc = "init"
    /\ LET ps == OrchCalls(nest.class, nest.base, nest.sets) IN
       IF Len(ps) = 0
       THEN /\ top' = [pc |-> "done", result |-> FlowPost(Null)]
            /\ UNCHANGED orch
       ELSE /\ top' = [top EXCEPT !.pc = "running"]
            /\ orch' = [i \in 1..Len(ps) |->
                          IF i = 1 \/ nest.class = "AsyncParallelBatchFlow"
                          THEN Started(NewOrch(ps[i])) ELSE NewOrch(ps[i])]
    /\ UNCHANGED <<nest, notNested>>

\* the frame on top of the stack of _orch call i
Frame(i) == orch[i].frames[Len(orch[i].frames)]

\* the class of a node of the graph: the inner flow, a cooperative node
\* (AsyncNode) or a plain Node
NestClass(n) ==
    IF IsFlowNode(n) THEN nest.inner
    ELSE IF n \in nest.coop THEN "AsyncNode" ELSE "Node"

\* `curr instanceof AsyncNode ? curr._runAsync(shared) : curr._run(shared)`
\* in _orchAsync; _orch always calls curr._run(shared)
ViaRunAsync(f) == f.async /\ IsAsyncNode(NestClass(f.curr))

\* _orch call i rejects with e; the first rejection rejects the top flow's
\* run (the other calls of a Promise.all are not stopped)
Fail(i, e) ==
    /\ orch' = [orch EXCEPT ![i] = [@ EXCEPT !.status = "rejected",
                                            !.frames = << >>,
                                            !.result = e]]
    /\ top' = IF top.pc = "running" THEN [pc |-> "failed", result |-> e] ELSE top

\* `curr.setParams(p); lastAction = await curr._run(shared)` (in _orchAsync,
\* _runAsync for an AsyncNode) for a plain node: the lifecycle returns a
\* label, AsyncNode._run throws, or a stage of the node throws
Lifecycle(i) ==
    /\ orch[i].status = "active"
    /\ Frame(i).stage = "Idle"
    /\ ~IsFlowNode(Frame(i).curr)
    /\ IF IsAsyncNode(NestClass(Frame(i).curr)) /\ ~ViaRunAsync(Frame(i))
       THEN Fail(i, UseRunAsyncError)
       ELSE \/ /\ \E l \in NestLabels :
                    orch' = [orch EXCEPT ![i] =
                               [@ EXCEPT !.frames[Len(@.frames)] =
                                             [Frame(i) EXCEPT !.stage = "Done", !.lastAction = l],
                                         !.trace = Append(@, [node |-> Frame(i).curr,
                                                              params |-> Frame(i).params,
                                                              shared |-> Frame(i).shared,
                                                              label |-> l,
                                                              depth |-> Len(orch[i].frames),
                                                              runAsync |-> ViaRunAsync(Frame(i))])]]
               /\ UNCHANGED top
            \/ /\ Frame(i).curr \in nest.throwing
               /\ Fail(i, ExecError(Frame(i).curr, 1))
    /\ UNCHANGED <<nest, notNested>>

\* the same for a Flow: Flow._run calls this._orch(shared) on the copy, whose
\* params are the p that setParams stored; an AsyncFlow is no AsyncNode, so
\* _orchAsync calls its _run, which is Flow._run, too
EnterFlow(i) ==
    /\ orch[i].status = "active"
    /\ Frame(i).stage = "Idle"
    /\ IsFlowNode(Frame(i).curr)
    /\ orch' = [orch EXCEPT ![i].frames =
                  Append([@ EXCEPT ![Len(@)].stage = "Orch"],
                         NewFrame(InnerStart, OrchParams(<< >>, Frame(i).params),
                                  Frame(i).shared, ViaRunAsync(Frame(i))))]
    /\ UNCHANGED <<nest, top, notNested>>

\* getNextNode(curr, lastAction): the loop goes on with the successor, or
\* _orch returns lastAction to Flow._run of the enclosing frame or to the
\* top flow's _run
Step(i) ==
    /\ orch[i].status = "active"
    /\ Frame(i).stage = "Done"
    /\ LET nextNode == GetNextNode(nest.links[Frame(i).curr], Frame(i).lastAction)
           depth == Len(orch[i].frames)
           returned == [orch EXCEPT ![i] = [@ EXCEPT !.status = "returned",
                                                     !.frames = << >>,
                                                     !.result = Frame(i).lastAction]]
       IN
       \/ /\ nextNode \in NestNodes
          /\ orch' = [orch EXCEPT ![i].frames[depth] =
                        [@ EXCEPT !.curr = nextNode, !.stage = "Idle"]]
          /\ UNCHANGED top
       \/ /\ nextNode = None
          /\ depth > 1
          /\ orch' = [orch EXCEPT ![i].frames =
                        [SubSeq(@, 1, depth - 1) EXCEPT ![depth - 1] =
                            [@ EXCEPT !.stage = "Done",
                                      !.lastAction = FlowPost(Frame(i).lastAction)]]]
          /\ UNCHANGED top
       \/ /\ nextNode = None
          /\ depth = 1
          /\ IF SingleOrch(nest.class)
             THEN /\ orch' = returned
                  /\ top' = [pc |-> "done", result |-> FlowPost(Frame(i).lastAction)]
             ELSE IF Sequential(nest.class) /\ i < Len(orch)
             THEN /\ orch' = [returned EXCEPT ![i + 1] = Started(@)]
                  /\ UNCHANGED top
             ELSE /\ orch' = returned
                  /\ top' = IF \A j \in 1..Len(orch) : returned[j].status = "returned"
                            THEN [pc |-> "done", result |-> FlowPost(Null)]
                            ELSE top
    /\ UNCHANGED <<nest, notNested>>

NestNext ==
    \/ RunTop
    \/ \E i \in 1..Len(orch) : Lifecycle(i) \/ EnterFlow(i) \/ Step(i)

SpecNested == NestInit /\ [][NestNext]_vars

\* the flows run with runAsync, over an inner Flow or AsyncFlow, with a
\* cooperative node in the inner or the outer graph and with a node whose
\* stages can throw
AsyncNestInit ==
    /\ EngineIdle
    /\ RouterIdle
    /\ CompilerIdle
    /\ RunsIdle
    /\ DocIdle
    /\ nest \in [class : {"AsyncFlow", "AsyncParallelBatchFlow"},
                 links : {[n \in NestNodes |->
                              CASE n = "inner" -> out
                                [] n = "i1" -> ("default" :> "i2")
                                [] OTHER -> EmptyMap] :
                             out \in NestMaps({"after"})},
                 base : BaseParams,
                 sets : ParamSetLists,
                 inner : {"Flow", "AsyncFlow"},
                 coop : {{}, {"i2"}, {"after"}},
                 throwing : {{}, {"after"}}]
    /\ nest.class = "AsyncFlow" => nest.sets = << >>
    /\ orch = << >>
    /\ top = [pc |-> "init", result |-> Null]

SpecAsyncNested == AsyncNestInit /\ [][NestNext]_vars

(***************************************************************************)
(* compiler.js: interpolate over a template of several placeholders, with  *)
(* context { ctx: { name: 'World', self: <ctx itself> }, result: {} }.       *)
(***************************************************************************)
MaxPlaceholders == 2

\* the expressions of the placeholders: property paths, a name of the
\* evaluation context, JavaScript that evaluates, an identifier that is not
\* defined, a Symbol, and json(...) of a string and of a cyclic object
Exprs ==
    {"ctx.name", "ctx.missing", "result", "1+1", "name", "Symbol()",
     "json(ctx.name)", "json(ctx.self)"}

\* a JavaScript value, by its type and, where it has one, its string
JsVal(type, str) == [type |-> type, str |-> str]

\* `expr.startsWith('json(')` and `expr.slice(5, -1)`
IsJsonCall(expr) == expr \in {"json(ctx.name)", "json(ctx.self)"}
JsonInner(expr) == IF expr = "json(ctx.name)" THEN "ctx.name" ELSE "ctx.self"

\* `expr.includes('.')`
Dotted(expr) == expr \in {"ctx.name", "ctx.missing", "ctx.self"}

\* getNestedProperty(evalContext, expr) in the context above
NestedOf(expr) ==
    CASE expr = "ctx.name" -> JsVal("string", "World")
      [] expr = "ctx.self" -> JsVal("cyclic", "[object Object]")
      [] OTHER -> JsVal("undefined", "undefined")

\* `expr in evalContext`
InEvalContext(expr) == expr \in {"ctx", "result", "json", "stringify", "parse"}

\* new Function('ctx', 'result', `return (${expr})`)(ctx, result): the value,
\* or the error thrown
RunAsJavaScript(expr) ==
    CASE expr = "1+1" -> [threw |-> FALSE, value |-> JsVal("number", "2")]
      [] expr = "Symbol()" -> [threw |-> FALSE, value |-> JsVal("symbol", "-")]
      [] OTHER -> [threw |-> TRUE, value |-> JsVal("error", "ReferenceError")]

\* evaluateExpression(expr, context): `catch (e) { return expr; }`
EvaluateText(expr) ==
    IF Dotted(expr) THEN [threw |-> FALSE, value |-> NestedOf(expr)]
    ELSE IF InEvalContext(expr) THEN [threw |-> FALSE, value |-> JsVal("object", "[object Object]")]
    ELSE IF RunAsJavaScript(expr).threw THEN [threw |-> FALSE, value |-> JsVal("string", expr)]
    ELSE RunAsJavaScript(expr)

\* JSON.stringify(v): a cyclic object makes it throw
JsonStringifyText(v) ==
    IF v.type = "cyclic" THEN [threw |-> TRUE, value |-> JsVal("error", "TypeError")]
    ELSE IF v.type = "string" THEN [threw |-> FALSE, value |-> JsVal("string", "\"" \o v.str \o "\"")]
    ELSE IF v.type = "undefined" THEN [threw |-> FALSE, value |-> JsVal("undefined", "undefined")]
    ELSE [threw |-> FALSE, value |-> JsVal("string", v.str)]

\* the body of the try block of the replace callback
Substitute(expr) ==
    IF IsJsonCall(expr)
    THEN LET r == EvaluateText(JsonInner(expr)) IN
         IF r.threw THEN r ELSE JsonStringifyText(r.value)
    ELSE EvaluateText(expr)

\* the text `{{expr}}` as it stands in the template, and a text put in its place
Literal(expr) == [text |-> expr, braces |-> TRUE]
Replaced(str) == [text |-> str, braces |-> FALSE]

\* the replace callback: `try { ... } catch (e) { return match; }`
Callback(expr) ==
    IF Substitute(expr).threw THEN JsVal("match", expr) ELSE Substitute(expr).value

\* String.prototype.replace converts what the callback returned with
\* ToString, which throws a TypeError for a Symbol
ToStringThrows(v) == v.type = "symbol"

TextInit ==
    /\ EngineIdle
    /\ RouterIdle
    /\ CompilerIdle
    /\ RunsIdle
    /\ NestIdle
    /\ mq = << >>
    /\ counter = 0
    /\ senderPc = "idle"
    /\ agentSucc = EmptyMap
    /\ postRet = Null
    /\ agentStage = "idle"
    /\ received = << >>
    /\ qflow = "idle"
    /\ tmpl \in UNION {[1..n -> Exprs] : n \in 0..MaxPlaceholders}
    /\ output = << >>
    /\ ipc = "replacing"

notText == <<engineVars, routerVars, compilerVars, runVars, nestVars, queueVars>>

\* replace finds the next placeholder, calls the callback and converts its
\* value to a string
ReplaceNext ==
    /\ ipc = "replacing"
    /\ Len(output) < Len(tmpl)
    /\ LET v == Callback(tmpl[Len(output) + 1]) IN
       IF ToStringThrows(v)
       THEN /\ ipc' = "threw"
            /\ UNCHANGED output
       ELSE /\ output' = Append(output, IF v.type = "match" THEN Literal(v.str)
                                        ELSE Replaced(v.str))
            /\ UNCHANGED ipc
    /\ UNCHANGED <<tmpl, notText>>

\* replace has gone through the template and interpolate returns the string
ReturnText ==
    /\ ipc = "replacing"
    /\ Len(output) = Len(tmpl)
    /\ ipc' = "returned"
    /\ UNCHANGED <<tmpl, output, notText>>

TextNext == ReplaceNext \/ ReturnText

SpecInterpolate == TextInit /\ [][TextNext]_vars

(***************************************************************************)
(* docs/design_pattern-multi_agent.md: the message queue agent, an         *)
(* AsyncNode connected to itself and run in an AsyncFlow, and the sender   *)
(* that puts a message on the queue every second.                          *)
(***************************************************************************)
MaxMessages == 4

\* `agent.next(agent)` registers under "default"; the other program drawn
\* registers the link under the label that postAsync returns
AgentLinks == {NextLink(EmptyMap, l, "agent") : l \in {"default", "continue"}}

\* postAsync's `return "continue"`, or no return statement
AgentLabels == {"continue", Undefined}

QueueInit ==
    /\ EngineIdle
    /\ RouterIdle
    /\ CompilerIdle
    /\ RunsIdle
    /\ NestIdle
    /\ tmpl = << >>
    /\ output = << >>
    /\ ipc = "idle"
    /\ mq = << >>
    /\ counter = 0
    /\ senderPc = "put"
    /\ agentSucc \in AgentLinks
    /\ postRet \in AgentLabels
    /\ agentStage = "prep"
    /\ received = << >>
    /\ qflow = "running"

notQueue == <<engineVars, routerVars, compilerVars, runVars, nestVars, textVars>>

\* sendSystemMessages: `await messageQueue.put(message); counter++`
Put ==
    /\ senderPc = "put"
    /\ counter < MaxMessages
    /\ mq' = Append(mq, counter)
    /\ counter' = counter + 1
    /\ senderPc' = "sleep"
    /\ UNCHANGED <<agentSucc, postRet, agentStage, received, qflow, notQueue>>

\* sendSystemMessages: the one-second timer fires
Tick ==
    /\ senderPc = "sleep"
    /\ senderPc' = "put"
    /\ UNCHANGED <<mq, counter, agentSucc, postRet, agentStage, received, qflow, notQueue>>

\* prepAsync: `await messageQueue.get()` resolves with the oldest message
Get ==
    /\ qflow = "running"
    /\ agentStage = "prep"
    /\ mq # << >>
    /\ received' = Append(received, Head(mq))
    /\ mq' = Tail(mq)
    /\ agentStage' = "exec"
    /\ UNCHANGED <<counter, senderPc, agentSucc, postRet, qflow, notQueue>>

\* execAsync returns `Processed: ${message}`
Process ==
    /\ qflow = "running"
    /\ agentStage = "exec"
    /\ agentStage' = "post"
    /\ UNCHANGED <<mq, counter, senderPc, agentSucc, postRet, received, qflow, notQueue>>

\* postAsync returns its label and _orchAsync goes on with
\* getNextNode(curr, lastAction), or returns when there is no such successor
PostAndStep ==
    /\ qflow = "running"
    /\ agentStage = "post"
    /\ IF GetNextNode(agentSucc, postRet) = "agent"
       THEN /\ agentStage' = "prep"
            /\ UNCHANGED qflow
       ELSE /\ agentStage' = "ended"
            /\ qflow' = "done"
    /\ UNCHANGED <<mq, counter, senderPc, agentSucc, postRet, received, notQueue>>

QueueNext == Put \/ Tick \/ Get \/ Process \/ PostAndStep

SpecQueue == QueueInit /\ [][QueueNext]_vars

\* the event loop runs the sender's and the agent's continuations
SpecQueueFair ==
    /\ SpecQueue
    /\ WF_vars(Put \/ Tick)
    /\ WF_vars(Get \/ Process \/ PostAndStep)

(***************************************************************************)
(* Properties.                                                             *)
(***************************************************************************)
\* curr is a clone of a Node or an AsyncNode (one _exec call per lifecycle)
SingleNode == curr \in NodeIds /\ kind[curr] \in {"Node", "AsyncNode"}

Settled(t) == t.pc \in {"resolved", "rejected"}

\* the successor next() registered for node n under label l, if any
Registered(n, l) == IF l \in DOMAIN successors[n] THEN successors[n][l] ELSE None

NothingReturned(l) == l \in {Undefined, Null, Empty}

\* C1: a Node or AsyncNode with maxRetries = k >= 1 whose exec fails on every
\* attempt has exec invoked exactly k times and then its fallback exactly once
\* (never before the k-th call); when the fallback rethrows, as the default one
\* does, post is not called and the lifecycle and the run fail with the error
\* of the last attempt.
RetryCount_C1 ==
    (SingleNode /\ maxRetries >= 1 /\ Len(tasks) = 1) =>
        LET t == tasks[1] IN
        /\ t.execCalls <= maxRetries
        /\ t.fallbackCalls <= 1
        /\ (t.fallbackCalls = 1 => t.execCalls = maxRetries)
        /\ (Settled(t) /\ t.okAttempt = 0) =>
              /\ t.execCalls = maxRetries
              /\ t.fallbackCalls = 1
        /\ t.pc = "rejected" =>
              /\ t.error = ExecError(t.item, maxRetries)
              /\ execErr = t.error
              /\ stage \in {"Executing", "Failed"}
              /\ postCalls = 0
              /\ (stage = "Failed" => pc = "failed" /\ flowError = t.error)

\* C1 witness: an AsyncNode with two attempts failed both, its fallback
\* rethrew and the run failed with the second attempt's error.
RetryCount_C1_Witness ==
    /\ SingleNode
    /\ kind[curr] = "AsyncNode"
    /\ maxRetries = 2
    /\ Len(tasks) = 1
    /\ tasks[1].execCalls = 2
    /\ tasks[1].fallbackCalls = 1
    /\ pc = "failed"
    /\ flowError = ExecError("a", 2)

\* C2: with maxRetries = k >= 1, post receives exactly one execute-result: the
\* value of the first successful attempt j <= k (exec invoked j times, the
\* fallback never) or, when all k attempts failed, the fallback's value; the
\* flow then continues with the successor registered under the label post
\* returned, and ends with that label when there is none.
RetryTransparent_C2 ==
    /\ (SingleNode /\ maxRetries >= 1 /\ stage \in {"PostProcessing", "Done"}) =>
          LET t == tasks[1] IN
          /\ postCalls = 1
          /\ Len(postArg) = 1
          /\ \/ /\ t.okAttempt \in 1..maxRetries
                /\ t.execCalls = t.okAttempt
                /\ t.fallbackCalls = 0
                /\ postArg[1] = ExecValue(t.item, t.okAttempt)
             \/ /\ t.okAttempt = 0
                /\ t.execCalls = maxRetries
                /\ t.fallbackCalls = 1
                /\ postArg[1] = FallbackValue(t.item)
    /\ (hop >= 2 /\ stage = "Idle" /\ pc = "running") =>
          curr = Registered(prevNode, IF NothingReturned(lastAction) THEN "default"
                                      ELSE lastAction)
    /\ pc = "done" => flowResult = lastAction

\* C2 witness: the first attempt failed, the second succeeded, post got the
\* second attempt's value and the flow moved on to the successor.
RetryTransparent_C2_Witness ==
    /\ hop = 1
    /\ SingleNode
    /\ stage = "Done"
    /\ tasks[1].execCalls = 2
    /\ postArg = <<ExecValue("a", 2)>>
    /\ lastAction = "a"
    /\ Registered(curr, "a") = "n2"

\* C3 (as claimed): when post returns a label under which the node has no
\* registered successor, the run ends without an error and its result is that
\* label.
GracefulEnd_C3 ==
    (/\ stage = "Done"
     /\ prevNode \in NodeIds
     /\ pc \in {"done", "failed"}
     /\ Registered(prevNode, IF NothingReturned(lastAction) THEN "default"
                             ELSE lastAction) = None)
        => pc = "done" /\ flowResult = lastAction

OneLifecycle_C5 ==
    /\ inProgress \in {0, 1}
    /\ stage \in {"Preparing", "Executing", "PostProcessing"} => inProgress = 1
    /\ (pc = "running" /\ stage \in {"Idle", "Done"}) => inProgress = 0

\* C5 witness: the second node of an AsyncFlow run is executing two elements.
OneLifecycle_C5_Witness ==
    /\ asyncOrch
    /\ hop = 2
    /\ stage = "Executing"
    /\ Len(tasks) = 2
    /\ \A i \in 1..2 : tasks[i].pc = "awaitExec"
    /\ inProgress = 1

\* an execute-result of element t: the value of one of its attempts, or of
\* its fallback
IsResultOf(v, t) ==
    \/ \E j \in 1..maxRetries : v = ExecValue(t.item, j)
    \/ v = FallbackValue(t.item)

\* C6 (as claimed): the batch node kinds pass to post a sequence as long as
\* the input collection whose i-th entry is the execute-result of the i-th
\* element.
BatchOrder_C6 ==
    (/\ curr \in NodeIds
     /\ IsBatchKind(kind[curr])
     /\ maxRetries >= 1
     /\ stage \in {"PostProcessing", "Done"})
        => /\ Len(postArg) = Len(tasks)
           /\ \A i \in 1..Len(tasks) : IsResultOf(postArg[i], tasks[i])

\* C7 (as claimed): a BatchNode executes its elements one at a time: exec of
\* element i+1 is not called before element i, retries included, has finished.
BatchSequential_C7 ==
    (curr \in NodeIds /\ kind[curr] = "BatchNode") =>
        \A i \in 1..(Len(tasks) - 1) :
            tasks[i + 1].execCalls > 0 => Settled(tasks[i])

\* C8 (as claimed): in every batch node kind with maxRetries = k, an element
\* whose exec always fails has exec invoked exactly k times before its
\* fallback runs, whatever the other elements do.
BatchElementRetries_C8 ==
    (curr \in NodeIds /\ IsBatchKind(kind[curr]) /\ maxRetries >= 1) =>
        \A i \in 1..Len(tasks) :
            /\ tasks[i].fallbackCalls >= 1 => tasks[i].execCalls = maxRetries
            /\ (Settled(tasks[i]) /\ tasks[i].okAttempt = 0) =>
                   tasks[i].execCalls = maxRetries

Matching(cs, s) ==
    {i \in 1..Len(cs) : cs[i].when.op \in {"absent", "true"}
                        \/ (cs[i].when.op = "ge" /\ s >= cs[i].when.a)
                        \/ (cs[i].when.op = "lt" /\ s < cs[i].when.a)
                        \/ (cs[i].when.op = "range" /\ s >= cs[i].when.a
                                                    /\ s < cs[i].when.b)}

ModerationCases ==
    <<[label |-> "approve", when |-> [op |-> "ge", a |-> HighMark, b |-> 0]],
      [label |-> "review", when |-> [op |-> "range", a |-> LowMark, b |-> HighMark]],
      [label |-> "reject", when |-> [op |-> "lt", a |-> LowMark, b |-> 0]]>>

\* C10: the router returns the label of the first declared case whose
\* condition is true ("true" always matching) and no label when none matches;
\* with the cases approve: score >= 8, review: 5 <= score < 8, reject:
\* score < 5 it returns approve for 9, review for 6 and reject for 2.
RouterFirstMatch_C10 ==
    routed # None =>
        /\ Matching(cases, score) = {} => routed = Null
        /\ Matching(cases, score) # {} =>
              \E i \in Matching(cases, score) :
                  /\ \A j \in Matching(cases, score) : i <= j
                  /\ routed = cases[i].label
        /\ cases = ModerationCases =>
              /\ score = 9 => routed = "approve"
              /\ score = 6 => routed = "review"
              /\ score = 2 => routed = "reject"

\* C10 witness: the moderation cases routed a score of 6 to review.
RouterFirstMatch_C10_Witness ==
    /\ cases = ModerationCases
    /\ score = 6
    /\ routed = "review"

\* the node and edge specs a description holds
NodesOf(d) == IF "nodes" \in d.has THEN d.nodes ELSE << >>
EdgesOf(d) == IF "edges" \in d.has THEN d.edges ELSE << >>

\* node spec n declares label l: as its post.next, or, for a router, as the
\* label of one of its cases
Declares(n, l) ==
    \/ l = n.next
    \/ n.kind = "router" /\ \E k \in 1..Len(n.cases) : n.cases[k].label = l

\* some edge's label ("default" when absent) is not "default" and is declared
\* by no node spec carrying the edge's source id
UndeclaredLabelEdge(d) ==
    \E i \in 1..Len(EdgesOf(d)) :
        LET e == EdgesOf(d)[i]
            l == IF e.label = Undefined THEN "default" ELSE e.label
        IN  /\ l # "default"
            /\ \A j \in 1..Len(NodesOf(d)) :
                   NodesOf(d)[j].id = e.from => ~Declares(NodesOf(d)[j], l)

ValidateConfigErrors ==
    {"Invalid config: missing required fields (version, entry, nodes, edges)",
     "Config must have at least one node", "Entry node not found in nodes",
     "Edge references missing node", "Invalid edge routing"}

\* no lifecycle of a compiled node has run and the caller's shared context is
\* as it was passed
NothingExecuted ==
    /\ pc = "init"
    /\ \A id \in DOMAIN visits : visits[id] = 0
    /\ ctx = InitialContext(description)

\* C11: createAndRunAgent on a reply whose description has an edge with a
\* label that is not "default", not the source's post.next and not one of the
\* source router's case labels fails in validateConfig: the result has
\* success = false and a validation error, compile is never reached and no
\* lifecycle stage of any node executes.
EdgeLabelValidated_C11 ==
    (caller = "agent" /\ reply = "json" /\ agent # "init"
     /\ UndeclaredLabelEdge(description))
        => /\ ~created.threw
           /\ ~created.success
           /\ created.error \in ValidateConfigErrors
           /\ compiled = NotCompiled
           /\ agent = "threw"
           /\ NothingExecuted

\* C11 witness: two data nodes a and b, neither declaring "x", and an edge
\* a -> b labelled "x": rejected as an invalid edge routing.
EdgeLabelValidated_C11_Witness ==
    /\ caller = "agent"
    /\ agent = "threw"
    /\ Len(description.nodes) = 2
    /\ description.nodes[1].kind = "data"
    /\ description.nodes[2].id = "b"
    /\ description.edges = <<EdgeSpec("a", "b", "x")>>
    /\ created.error = "Invalid edge routing"

\* a structural defect of a description: a required field is missing, two
\* node specs share an id, a kind is not one of the registry's, an edge end
\* or the entry is not a declared id
Defective(d) ==
    \/ ~(RequiredFields \subseteq d.has)
    \/ \E i, j \in 1..Len(d.nodes) : i < j /\ d.nodes[i].id = d.nodes[j].id
    \/ \E i \in 1..Len(d.nodes) : d.nodes[i].kind \notin Registry
    \/ \E i \in 1..Len(d.edges) :
          d.edges[i].from \notin DeclaredIds(d) \/ d.edges[i].to \notin DeclaredIds(d)
    \/ d.entry \notin DeclaredIds(d)

\* C12 (as claimed): compile throws, returning no flow and running no node
\* stage, for every description that lacks version, entry, nodes or edges,
\* repeats a node id, has a node of a kind that is not in the registry, has an
\* edge whose from or to is not declared, or names an undeclared entry.
CompileRejects_C12 ==
    (caller = "compile" /\ agent # "init" /\ Defective(description))
        => /\ compiled.threw
           /\ compiled.flow = None
           /\ NothingExecuted

\* C13 (as claimed): compile throws, returning no flow, for a description
\* with an edge whose label its source node cannot produce.
CompileRejectsLabel_C13 ==
    (caller = "compile" /\ agent # "init" /\ UndeclaredLabelEdge(description))
        => compiled.threw /\ compiled.flow = None

\* the successor links of the compiled nodes
Links(c) ==
    UNION {{<<id, l>> : l \in DOMAIN c.successors[id]} : id \in DOMAIN c.successors}

\* C14 (as claimed): for a description that passes validation, with N node
\* specs and M edge specs, compile yields exactly N runtime nodes and exactly
\* M successor links.
CompilationTotality_C14 ==
    (/\ caller = "compile"
     /\ agent # "init"
     /\ ValidateConfig(description) = Ok
     /\ ValidateAgainstSchema(description) = Ok
     /\ ~compiled.threw)
        => /\ Cardinality(DOMAIN compiled.nodes) = Len(description.nodes)
           /\ Cardinality(Links(compiled)) = Len(description.edges)

\* C15 (as claimed): compiling and running the single data node with exec
\* {message: "hi"} that saves "{{exec.message}}" at "out", on an empty shared
\* context, leaves shared.out equal to "hi"; the flow result is no label.
DataNodeScenario_C15 ==
    (description = DataExample /\ pc = "done")
        => /\ Member(ctx, <<"out">>) = Prim("hi")
           /\ flowResult \in {Undefined, Null, "default"}

\* C16 (as claimed): a compiled node that declares loop_guard.max_iterations
\* has its lifecycle run at most that many times in a run; revise, in the
\* review / revise cycle, at most 3 times.
LoopGuard_C16 ==
    \A id \in DOMAIN visits :
        compiled.nodes[id].spec.loopGuard > 0
            => visits[id] <= compiled.nodes[id].spec.loopGuard

\* C17 (as claimed): a completed run of the compiler test's flow has run
\* greet, analyze, route and the data node the router chose, once each, and
\* greeting, model_used, analysis and result are keys of the shared context.
TestChain_C17 ==
    (description = TestConfig /\ pc = "done")
        => /\ visits["greet"] = 1 /\ visits["analyze"] = 1 /\ visits["route"] = 1
           /\ \E n \in {"positive", "negative", "neutral"} : visits[n] = 1
           /\ \A k \in {"greeting", "model_used", "analysis", "result"} : HasKey(ctx, k)

\* a description that validation or compilation has to refuse, whatever
\* schema.json lists: a missing field, no node, an undeclared entry or edge
\* end, an undeclared edge label, a repeated id, a kind nothing defines
Rejectable(d) ==
    \/ ~(RequiredFields \subseteq d.has)
    \/ Len(d.nodes) = 0
    \/ d.entry \notin DeclaredIds(d)
    \/ \E i \in 1..Len(d.edges) :
          d.edges[i].from \notin DeclaredIds(d) \/ d.edges[i].to \notin DeclaredIds(d)
    \/ UndeclaredLabelEdge(d)
    \/ \E i, j \in 1..Len(d.nodes) : i < j /\ d.nodes[i].id = d.nodes[j].id
    \/ \E i \in 1..Len(d.nodes) : d.nodes[i].kind = "custom"

\* C18: createAgentFromDescription never throws: for a reply that is not
\* parseable as a description, and for a description that fails validation or
\* compilation, it returns success = false with an error message; whenever it
\* returns success = false, createAndRunAgent runs no node stage and leaves
\* the caller's shared context as it was.
GeneratorFailure_C18 ==
    (caller = "agent" /\ agent # "init")
        => /\ ~created.threw
           /\ (reply # "json" \/ Rejectable(description)) => ~created.success
           /\ ~created.success =>
                 /\ created.error # Ok
                 /\ created.compiled = NotCompiled
                 /\ compiled = NotCompiled
                 /\ agent = "threw"
                 /\ NothingExecuted

\* C18 witness: a description with two node specs of the same id passes
\* validateConfig and the schema check, compile throws, and the result is a
\* failure naming the duplicate id.
GeneratorFailure_C18_Witness ==
    /\ caller = "agent"
    /\ reply = "json"
    /\ ValidateConfig(description) = Ok
    /\ created.error = "Duplicate node ID"
    /\ ~created.success
    /\ agent = "threw"

\* C19: when an element's exec failed on every attempt and its fallback
\* rethrew, the lifecycle fails: the run rejects with the first such error,
\* which no later rejection replaces; post of the failing node is not called,
\* and from the failure on no lifecycle starts, no stage runs and the shared
\* context stays as the posts completed before the failure left it.
ExecFailureAborts_C19 ==
    [][/\ stage' = "Failed" =>
             /\ pc' = "failed"
             /\ flowError' = execErr'
             /\ \E i \in 1..Len(tasks') :
                    /\ tasks'[i].pc = "rejected"
                    /\ tasks'[i].okAttempt = 0
                    /\ tasks'[i].fallbackCalls = 1
                    /\ tasks'[i].error = flowError'
             /\ postCalls' = 0
             /\ shared' = shared
       /\ execErr # NoError => execErr' = execErr
       /\ pc = "failed" =>
             /\ pc' = "failed"
             /\ flowError' = flowError
             /\ shared' = shared
             /\ <<curr, hop, stage, prepCalls, postCalls, postArg, lastAction>>'
                   = <<curr, hop, stage, prepCalls, postCalls, postArg, lastAction>>
    ]_vars

\* C19 witness: n1's post wrote the shared context, the flow moved on to n2,
\* a Node with two attempts that both failed; the run failed with the second
\* attempt's error and the shared context holds n1's write only.
ExecFailureAborts_C19_Witness ==
    /\ hop = 2
    /\ curr = "n2"
    /\ kind[curr] = "Node"
    /\ maxRetries = 2
    /\ stage = "Failed"
    /\ pc = "failed"
    /\ flowError = ExecError("a", 2)
    /\ postCalls = 0
    /\ shared = {"n1"}

\* what run r is made of: its _orch frame and the object it works on
RunState(r) == <<runs[r], heap[runs[r].obj]>>

\* C20: a run never changes a registered node's params, successors or retry
\* counter, and two runs over the same graph (one after the other or
\* interleaved, each with its own shared) go as if each were alone, also when
\* one of them fails: a step of one run leaves the other run as it was, the
\* object a run works on carries that run's params and counts that run's
\* exec calls only, and only a run whose own last attempt was rejected or
\* whose own label is not a node fails
Isolation_C20 ==
    [][/\ \A n \in NodeIds : heap'[n] = heap[n] /\ heap[n] = Constructed(successors[n])
       /\ \A r \in Runs :
            /\ actor' # r => RunState(r)' = RunState(r)
            /\ runs'[r].pc = "running" =>
                 /\ heap'[runs'[r].obj].params = ParamsOf(r)
                 /\ heap'[runs'[r].obj].successors = successors[runs'[r].node]
                 /\ runs'[r].stage = "Executing" =>
                      heap'[runs'[r].obj].curRetry = runs'[r].execCalls - 1
            /\ runs'[r].stage = "Failed" => runs'[r].execCalls = maxRetries
            /\ runs'[r].shared \subseteq NodeIds
    ]_vars

\* run 1 failed on its second attempt at n1 while run 2 went on to n2 and ended
Isolation_C20_Witness ==
    /\ maxRetries = 2
    /\ runs[1].pc = "failed" /\ runs[1].node = "n1" /\ runs[1].execCalls = 2
    /\ heap[runs[1].obj].curRetry = 1
    /\ runs[2].pc = "done" /\ runs[2].hop = 2 /\ runs[2].shared = {"n1", "n2"}
    /\ heap[runs[2].obj].params = "p2"
    /\ heap["n1"] = Constructed(successors["n1"])

\* run r is suspended in the execute stage of its current node
Suspended(r) == runs[r].pc = "running" /\ runs[r].stage = "Executing"

\* run r has ended, or has made as many lifecycles as the model follows
Finished(r) == runs[r].pc \in {"done", "failed"} \/ runs[r].hop = MaxHops

\* C21: of two flows run concurrently, one that is suspended waiting for an
\* external signal does not block the other: the other goes through its
\* lifecycles and ends, whether the first is ever resumed or not
NonBlocking_C21 == Suspended(1) ~> Finished(2)

\* run 1 is still waiting in its first lifecycle after run 2 ran two lifecycles
\* and ended
NonBlocking_C21_Witness ==
    /\ Suspended(1) /\ runs[1].hop = 1 /\ runs[1].execCalls = 1
    /\ runs[2].pc = "done" /\ runs[2].hop = 2 /\ runs[2].shared = {"n1", "n2"}

\* the label of the last lifecycle _orch call i has run
LastLabel(i) == orch[i].trace[Len(orch[i].trace)].label

\* C22: a Flow registered as a node of an outer Flow runs its sub-graph from
\* its own start node until no successor matches, on the same shared context
\* and with the outer run's params, and the outer flow takes the successor of
\* the inner flow under the last label produced inside the inner flow
NestedFlow_C22 ==
    [][\A i \in 1..Len(orch) :
         LET fs == orch[i].frames
             gs == orch'[i].frames
         IN  /\ (Len(fs) >= 1 /\ Len(gs) = Len(fs) + 1) =>
                   /\ gs[Len(gs)].curr = InnerStart
                   /\ gs[Len(gs)].stage = "Idle"
                   /\ gs[Len(gs)].params = fs[Len(fs)].params
                   /\ gs[Len(gs)].shared = fs[Len(fs)].shared
             /\ (Len(gs) >= 1 /\ Len(gs) = Len(fs) - 1) =>
                   /\ GetNextNode(nest.links[fs[Len(fs)].curr], LastLabel(i)) = None
                   /\ gs[Len(gs)].curr = "inner"
                   /\ gs[Len(gs)].stage = "Done"
                   /\ gs[Len(gs)].lastAction = LastLabel(i)
             /\ (Len(fs) = 1 /\ fs[1].curr = "inner" /\ fs[1].stage = "Done"
                    /\ orch'[i] # orch[i]) =>
                   /\ orch[i].trace[Len(orch[i].trace)].depth = 2
                   /\ IF GetNextNode(nest.links["inner"], LastLabel(i)) = None
                      THEN orch'[i].status = "returned" /\ orch'[i].result = LastLabel(i)
                      ELSE gs[1].curr = GetNextNode(nest.links["inner"], LastLabel(i))
             /\ \A k \in 1..Len(orch'[i].trace) :
                   /\ orch'[i].trace[k].params = orch'[i].params
                   /\ orch'[i].trace[k].shared = "shared"
                   /\ orch'[i].trace[k].depth = 2 <=> orch'[i].trace[k].node \in {"i1", "i2"}
    ]_vars

\* a Flow ran i1 and i2 inside the inner flow, whose last label "a" led the
\* outer flow to the node after it
NestedFlow_C22_Witness ==
    /\ nest.class = "Flow" /\ nest.base = ("k" :> "base")
    /\ top.pc = "done"
    /\ "default" \in DOMAIN nest.links["inner"] /\ "a" \in DOMAIN nest.links["inner"]
    /\ Len(orch[1].trace) = 3
    /\ orch[1].trace[1].node = "i1" /\ orch[1].trace[1].label = Null
    /\ orch[1].trace[2].node = "i2" /\ orch[1].trace[2].label = "a"
    /\ orch[1].trace[3].node = "after" /\ orch[1].trace[3].params = ("k" :> "base")

\* the params of sub-run i: the flow's base params, and over them the keys
\* of the i-th parameter set
SubRunParams(i) ==
    [x \in DOMAIN nest.base \cup DOMAIN nest.sets[i] |->
        IF x \in DOMAIN nest.sets[i] THEN nest.sets[i][x] ELSE nest.base[x]]

\* C28: BatchFlow and AsyncBatchFlow run the sub-graph from the start node
\* once per parameter set of the flow's prep, in order and one sub-run at a
\* time; every node of a sub-run gets the base params overlaid by the set
\* (the set's keys win), and without parameter sets no node runs
BatchFlowSubRuns_C28 ==
    (Sequential(nest.class) /\ top.pc # "init") =>
        /\ Len(orch) = Len(nest.sets)
        /\ \A i, j \in 1..Len(orch) :
              (i < j /\ orch[j].status # "pending") => orch[i].status = "returned"
        /\ \A i \in 1..Len(orch) :
              /\ \A k \in 1..Len(orch[i].trace) :
                    /\ orch[i].trace[k].params = SubRunParams(i)
                    /\ \A m \in 1..Len(orch[i].trace) :
                          orch[i].trace[m].node = orch[i].trace[k].node => m = k
              /\ orch[i].trace # << >> => orch[i].trace[1].node = "i1"
              /\ orch[i].status = "returned" => orch[i].trace # << >>
        /\ top.pc = "done" => \A i \in 1..Len(orch) : orch[i].status = "returned"
        /\ Len(nest.sets) = 0 => top.pc = "done" /\ orch = << >>

\* a BatchFlow with base params {k: "base"} ran the sub-graph for {k: "set"}
\* and then for {m: "set"}
BatchFlowSubRuns_C28_Witness ==
    /\ nest.class = "BatchFlow" /\ nest.base = ("k" :> "base")
    /\ nest.sets = <<("k" :> "set"), ("m" :> "set")>>
    /\ top.pc = "done"
    /\ Len(orch[1].trace) = 3 /\ orch[1].trace[3].params = ("k" :> "set")
    /\ Len(orch[2].trace) = 2
    /\ orch[2].trace[2].params = ("k" :> "base" @@ "m" :> "set")

\* the condition of case c raises when it is evaluated
Raises(c) == c.when.op = "throws"
Quiet(c) == ~Raises(c)

\* C26: a router case whose condition raises is treated as not matching, the
\* cases after it are still evaluated in declared order and post returns
\* normally: the label is the one the router returns for the same cases
\* without the raising ones, so the run goes on
ConditionErrorSkipped_C26 ==
    routed # None =>
        /\ routed = RouterPost(SelectSeq(cases, Quiet), score)
        /\ routed \in {Null} \cup {cases[i].label : i \in {j \in 1..Len(cases) : Quiet(cases[j])}}
        /\ \A i \in 1..Len(cases) :
              (/\ \A j \in 1..(i - 1) : Raises(cases[j])
               /\ Quiet(cases[i])
               /\ CaseMatches(cases[i], score)) => routed = cases[i].label

\* the first case raised and the second, a catch-all, was taken
ConditionErrorSkipped_C26_Witness ==
    /\ Len(cases) = 2
    /\ Raises(cases[1])
    /\ cases[2].when.op = "true"
    /\ routed = cases[2].label

\* the edges of d that leave node id under label l, by position
EdgesUnder(d, id, l) ==
    {i \in 1..Len(d.edges) : d.edges[i].from = id /\ EdgeLabel(d.edges[i]) = l}

Last(S) == CHOOSE i \in S : \A j \in S : j <= i

\* C25: linking a successor under a label the node already has a successor
\* for replaces it and raises no error, and the successors under the other
\* labels stay: after compile has linked the edges in declared order, each
\* node's successor under each label is the target of the last edge declared
\* for that node and label, and a description whose only peculiarity is a
\* repeated (from, label) pair compiles
SuccessorOverwrite_C25 ==
    (caller = "compile" /\ agent # "init") =>
        /\ ~Defective(description) => ~compiled.threw
        /\ ~compiled.threw =>
              \A id \in DOMAIN compiled.successors :
                 /\ DOMAIN compiled.successors[id] =
                        {EdgeLabel(description.edges[i]) :
                            i \in {j \in 1..Len(description.edges) :
                                      description.edges[j].from = id}}
                 /\ \A l \in DOMAIN compiled.successors[id] :
                       compiled.successors[id][l] =
                           description.edges[Last(EdgesUnder(description, id, l))].to

\* "a" was linked to itself under the default label and under "x", then to
\* "b" under "x": "x" now leads to "b" and the default label still to "a"
SuccessorOverwrite_C25_Witness ==
    /\ caller = "compile" /\ agent # "init"
    /\ description = OverwriteEdges
    /\ ~compiled.threw
    /\ compiled.successors["a"] = ("default" :> "a" @@ "x" :> "b")

\* the run of the compiled flow has ended, by returning or by throwing
RunEnded == agent \in {"returned", "threw"}

\* the collaborator itself rejected a call
CollaboratorFailed == flowError.tag = CollaboratorError

\* C23 (as claimed): for a valid description that mixes async nodes with
\* batch or ordinary nodes, running the flow compile returned executes the
\* entry node's lifecycle and then follows the labels until no successor
\* matches: the run returns, having run each node of the chain once
MixedFlowRuns_C23 ==
    (/\ description \in {MixedAsync, MixedAsyncBatch}
     /\ caller \in {"compile", "runAsync"}
     /\ RunEnded
     /\ ~CollaboratorFailed)
        => /\ agent = "returned"
           /\ \A id \in DOMAIN compiled.nodes : visits[id] = 1

\* C24 (as claimed): running a compiled flow with an async node through
\* flow.run, as the README and createAndRunAgent do, executes the node's
\* lifecycle with the effect of the llm node of the same spec: the answer is
\* saved at the declared path, the result in the last-result slot, and the
\* run returns the declared post.next
AsyncLikeLlm_C24 ==
    (/\ description = AsyncExample
     /\ caller \in {"compile", "agent"}
     /\ RunEnded
     /\ ~CollaboratorFailed)
        => /\ agent = "returned"
           /\ visits["ask"] = 1
           /\ ctx = PostShared(Asking("llm"), InitialContext(LlmExample), LlmResult)
           /\ Member(ctx, <<"answer">>) = Prim("AI Response")
           /\ Member(ctx, <<"_lastResult">>) = LlmResult
           /\ flowResult = "done"

\* C27 (as claimed): without an LLM collaborator, compiling a description
\* with an llm or async node succeeds, and for any retry policy the run is
\* aborted by the missing-collaborator error of the node's first execute
\* attempt: one call of exec, no wait
MissingLlmImmediate_C27 ==
    (/\ caller = "noLlm"
     /\ description \in {LlmExample, LlmRetry, AsyncExample})
        => /\ agent # "init" => ~compiled.threw
           /\ RunEnded =>
                 /\ agent = "threw"
                 /\ flowError.tag = MissingLlmError
                 /\ flowError.n = 1
                 /\ Len(tasks) = 1
                 /\ tasks[1].execCalls = 1
                 /\ Sleeps(tasks[1], RetryWait(compiled.nodes["ask"].spec)) = 0

\* C30 (as claimed): the prepare and execute stages of a compiled node leave
\* the shared context unchanged, so that every write happens in post
PrepExecFrame_C30 ==
    [][(stage = "Idle" /\ stage' \in {"PostProcessing", "Failed"}) => ctx' = ctx]_vars

\* the lifecycle of curr has ended: post returned, or _exec rejected
LifecycleEnded == curr \in NodeIds /\ stage \in {"Done", "Failed"}

ReceivesPrepRes(i) ==
    /\ tasks[i].item = IF IsBatchKind(kind[curr]) THEN prepRes[i] ELSE prepRes
    /\ Len(tasks) = IF IsBatchKind(kind[curr]) THEN Len(prepRes) ELSE 1

Malformed(d) ==
    \/ ~(RequiredFields \subseteq d.has)
    \/ \E i, j \in 1..Len(d.nodes) : i < j /\ d.nodes[i].id = d.nodes[j].id
    \/ \E i \in 1..Len(d.edges) :
          d.edges[i].from \notin DeclaredIds(d) \/ d.edges[i].to \notin DeclaredIds(d)
    \/ UndeclaredLabelEdge(d)

\* C31 (as claimed): a malformed description is rejected before any runtime
\* node has been instantiated by a kind factory: compile throws and no
\* factory has been called.
RejectedBeforeInstantiation_C31 ==
    (caller = "compile" /\ agent # "init" /\ Malformed(description))
        => compiled.threw /\ compiled.nodes = EmptyMap

\* the run of the compiled flow goes from node A (curr) to its successor B
HopsOn == agent = "running" /\ pc = "running" /\ hop' = hop + 1

\* C32 (as claimed): when node B runs immediately after node A in a compiled
\* flow, the last-result slot that B's prepare stage reads as `result` holds
\* A's execute-result, for every kind of A.
LastResultIsPrevious_C32 ==
    [][HopsOn => Member(ctx', <<"_lastResult">>)
                    = ExecResult(compiled.nodes[curr].spec, ctx)]_vars

\* element i of curr's lifecycle ended with a value of exec or with its
\* fallback having been invoked
EndedProperly(i) == tasks[i].okAttempt > 0 \/ tasks[i].fallbackCalls >= 1

\* C35 (as claimed): in BatchNode and AsyncParallelBatchNode, for any
\* maxRetries >= 1 and any wait, every element's execution ends with a
\* successful execute-result or with its fallback invoked: no element
\* finishes with an undefined result without a successful attempt, and post
\* is not reached while some element has neither.
ElementsEndProperly_C35 ==
    (/\ curr \in NodeIds
     /\ kind[curr] \in {"BatchNode", "AsyncParallelBatchNode"}
     /\ maxRetries >= 1)
        => /\ \A i \in 1..Len(tasks) : tasks[i].pc = "resolved" => EndedProperly(i)
           /\ stage \in {"PostProcessing", "Done"} =>
                 \A i \in 1..Len(tasks) : EndedProperly(i)

RoutingContexts == {EmptyMap} \cup {(<<"score">> :> s) : s \in DOMAIN Numerals}

\* the label that n's post returns is decided by ctx.score alone
ScoreRouted(n) == \A j \in 1..Len(n.cases) : n.cases[j].when.op # "includes"

\* in context sh, the post of the edge's source returns a label that
\* getNextNode resolves to the edge's target
TakenIn(c, e, sh) ==
    GetNextNode(c.successors[e.from], PostLabel(c.nodes[e.from].spec, sh)) = e.to

\* C36 (as claimed): every edge of a description that validateConfig accepts
\* can be taken at run time: in some shared context the compiled source
\* node's post returns a label that the flow resolves to the edge's target.
EveryEdgeTakeable_C36 ==
    (/\ caller = "compile"
     /\ agent # "init"
     /\ ~compiled.threw
     /\ ValidateConfig(description) = Ok)
        => \A i \in 1..Len(description.edges) :
              ScoreRouted(compiled.nodes[description.edges[i].from].spec) =>
                 \E sh \in RoutingContexts : TakenIn(compiled, description.edges[i], sh)


\* the lifecycles that the _orch calls of the run have completed
Traces == [i \in 1..Len(orch) |-> orch[i].trace]

\* C38 (as claimed): once a run of AsyncParallelBatchFlow has rejected to
\* its caller, no further node lifecycle of that run completes its execute
\* and post stages on the shared context.
QuietAfterFailure_C38 ==
    [][(nest.class = "AsyncParallelBatchFlow" /\ top.pc = "failed")
          => Traces' = Traces]_vars

\* C39 (as claimed): an AsyncFlow used as a node of an AsyncFlow that is
\* run with runAsync runs its sub-graph, its cooperative nodes through
\* _runAsync, and the outer flow continues with the inner flow's last label.
NestedAsyncFlow_C39 ==
    (/\ nest.class = "AsyncFlow"
     /\ nest.inner = "AsyncFlow"
     /\ nest.throwing = {}
     /\ top.pc \notin {"init", "running"})
        => /\ top.pc = "done"
           /\ orch[1].trace # << >>
           /\ orch[1].trace[1].node = "i1"
           /\ GetNextNode(nest.links["i1"], orch[1].trace[1].label) = "i2" =>
                 Len(orch[1].trace) >= 2 /\ orch[1].trace[2].node = "i2"
           /\ \A k \in 1..Len(orch[1].trace) :
                 LET e == orch[1].trace[k] IN
                 /\ e.node \in nest.coop => e.runAsync
                 /\ (e.node = "after" /\ k > 1) =>
                        GetNextNode(nest.links["inner"], orch[1].trace[k - 1].label) = "after"

\* no successor link of the graph reachable from the start node leads back
\* to a node already run: n2 is a leaf and n1 has no link to itself
Acyclic == \A l \in DOMAIN successors["n1"] : successors["n1"][l] # "n1"

Ended == pc \in {"done", "failed"}

\* C40: when the successor graph reachable from the start node is acyclic
\* and every stage terminates, the flow run ends, and it runs the lifecycle
\* of each reachable node at most once (the start node, then at most its
\* successor, one prep call each).
AcyclicTerminates_C40 ==
    /\ [](Acyclic => /\ hop <= 2
                     /\ prepCalls <= 1
                     /\ pc = "running" => curr = IF hop = 1 THEN "n1" ELSE "n2")
    /\ (Acyclic /\ pc = "running") ~> Ended

\* C40 witness: an acyclic graph n1 -> n2 whose run has ended after the
\* lifecycles of n1 and n2.
AcyclicTerminates_C40_Witness ==
    /\ Acyclic
    /\ \E l \in DOMAIN successors["n1"] : successors["n1"][l] = "n2"
    /\ pc = "done"
    /\ hop = 2
    /\ prevNode = "n2"
    /\ shared = {"n1", "n2"}


\* the expression of the placeholder cannot be evaluated: running it, or
\* JSON.stringify of its value, throws
CannotEvaluate(expr) ==
    IF IsJsonCall(expr)
    THEN JsonStringifyText(NestedOf(JsonInner(expr))).threw
    ELSE ~Dotted(expr) /\ ~InEvalContext(expr) /\ RunAsJavaScript(expr).threw

\* C34 (as claimed): interpolate never throws; a placeholder whose
\* expression cannot be evaluated stays in the output as its literal
\* {{...}} text, and every other placeholder of the template is substituted.
InterpolateNeverThrows_C34 ==
    /\ ipc # "threw"
    /\ ipc = "returned" =>
          /\ Len(output) = Len(tmpl)
          /\ \A i \in 1..Len(tmpl) :
                IF CannotEvaluate(tmpl[i]) THEN output[i] = Literal(tmpl[i])
                ELSE ~output[i].braces


\* the program of the document: next(agent) and `return "continue"`
Documented == agentSucc = ("default" :> "agent") /\ postRet = "continue"

WasReceived(m) == \E i \in 1..Len(received) : received[i] = m

\* C33 (as claimed): in the documented message-queue agent the flow keeps
\* re-running the agent node: the run does not end after a message, and
\* every message put on the queue is eventually received by the agent.
AgentKeepsListening_C33 ==
    /\ [](Documented => qflow = "running")
    /\ \A m \in 0..(MaxMessages - 1) :
          (Documented /\ counter > m) ~> WasReceived(m)

====
